---------------------------- MODULE Spec2Model ----------------------------
(***************************************************************************)
(* Ticket reservation, payment settlement and prize lifecycle of the      *)
(* prize raffle bot.                                                       *)
(*                                                                         *)
(* The store is the PostgreSQL database shared by the bot (SQLAlchemy,     *)
(* one session per repository call) and the Django back-office.  A         *)
(* repository call is a sequence of database round trips; every `await`   *)
(* is a point where another request, a sweep or the back-office can run.  *)
(* A session keeps the rows it loaded and, at commit, issues               *)
(*     UPDATE ... SET <columns whose value it changed> WHERE id = <pk>     *)
(* with no condition on the row's current state.  Each request below is    *)
(* therefore a process whose steps are its round trips.                    *)
(***************************************************************************)
EXTENDS Integers, Sequences, FiniteSets, Bags, TLC

\* ------------------------------------------------------------ bounds
NumUsers == 2
NumTickets == 2
MaxRefs == 1
MaxTime == 2
MaxInFlight == 2
ClockTickets == 1
MaxDate == 4
MaxTasks == 3
MaxRestarts == 1
\* the polls of a payment's status a poll loop makes before it gives up
\* (range(60) in the source)
MaxPolls == 2

\* ------------------------------------------------- program constants
\* reserve_tickets(..., reserve_time: int = 1): minutes a fresh hold lasts
ReserveMinutes == 1
\* init_payment: reserved_until = datetime.now() + timedelta(minutes=10)
PayMinutes == 10

\* Nullable columns of prizes_ticket: user_id, reserved_until, payment_id
NoUser == 0
NoTime == 0
NoRef == <<>>

\* no sweep has scanned since the last reservation or initiation
NoSweep == [at |-> -1, count |-> 0]

Users == 1..NumUsers
Numbers == 1..NumTickets
\* prize 1 is sold for 100, prize 2 is free (ticket_price = 0)
Prizes == {1, 2}
TicketIds == Prizes \X Numbers

VARIABLES
    now,        \* wall clock, datetime.now()
    prizes,     \* prizes_prize rows
    tickets,    \* prizes_ticket rows, keyed by (prize_id, ticket_number)
    payments,   \* prizes_payment rows with their prizes_payment_tickets links
    gateway,    \* payments created at the gateway: gateway[k] belongs to reference <<"pay", k>>
    proc,       \* the bot requests in flight, a bag of request records
    sweep,      \* the APScheduler job check_expired_reservations_job
    ann,        \* the APScheduler job announce_prizes_job
    adm,        \* a back-office request saving a prize
    swept,      \* history: the last scan of the sweep, if no reservation or initiation followed it
    tasks,      \* the asyncio tasks the handlers created, in the order of their creation
    reservation_timers,     \* tickets.py, reservation_timers: telegram id -> task
    payment_check_timers,   \* tickets.py, payment_check_timers: payment id -> task
    restarts,   \* how often the bot process has been restarted
    fin         \* the APScheduler job check_expired_prizes_job

\* what lives in the memory of the bot process
process == <<tasks, reservation_timers, payment_check_timers, restarts, fin>>

vars == <<now, prizes, tickets, payments, gateway, proc, sweep, ann, adm, swept,
          tasks, reservation_timers, payment_check_timers, restarts, fin>>

\* ------------------------------------------------------------ users
\* TelegramUser: the chat identity (telegram_id) and the primary key (id) are
\* different numbers; handlers carry telegram_id, tickets carry id.
telegram_id(u) == 1000 + u

TelegramIds == {telegram_id(u) : u \in Users}

\* select(TelegramUser).where(TelegramUser.telegram_id == user_id): the pk, or NoUser
user_by_telegram_id(tg) ==
    IF \E u \in Users : telegram_id(u) = tg
    THEN CHOOSE u \in Users : telegram_id(u) = tg
    ELSE NoUser

\* ------------------------------------------------------------ rows
FreeTicket == [user_id |-> NoUser, is_reserved |-> FALSE, is_paid |-> FALSE,
               reserved_until |-> NoTime, payment_id |-> NoRef]

\* no task: a key that is not in a registry, a request no task has issued
NoTask == 0

\* A request: the handler's arguments and the objects its session loaded;
\* task is the asyncio task that awaits it, if it is not a handler's own.
Request == [op |-> "", pc |-> "", user |-> NoUser, prize |-> 0, nums |-> {},
         todo |-> {}, ref |-> NoRef, status |-> "", until |-> NoTime,
         owner |-> NoUser, snap |-> <<>>, task |-> NoTask]

\* The unit of work at flush: only the columns whose value differs from the
\* loaded one are written to the row as it is now.
Flush(row, loaded, new) ==
    [user_id        |-> IF new.user_id # loaded.user_id THEN new.user_id ELSE row.user_id,
     is_reserved    |-> IF new.is_reserved # loaded.is_reserved THEN new.is_reserved ELSE row.is_reserved,
     is_paid        |-> IF new.is_paid # loaded.is_paid THEN new.is_paid ELSE row.is_paid,
     reserved_until |-> IF new.reserved_until # loaded.reserved_until THEN new.reserved_until ELSE row.reserved_until,
     payment_id     |-> IF new.payment_id # loaded.payment_id THEN new.payment_id ELSE row.payment_id]

\* session.commit() of a session that loaded snap (ticket id -> row) and
\* assigned new[id] to each loaded object.
Commit(store, snap, new) ==
    [id \in DOMAIN store |->
        IF id \in DOMAIN snap THEN Flush(store[id], snap[id], new[id]) ELSE store[id]]

\* What a session keeps of a loaded row: the loaded values of the columns the
\* request assigns (the flush compares no other column).
Loaded(row, cols) ==
    [user_id        |-> IF "user_id" \in cols THEN row.user_id ELSE NoUser,
     is_reserved    |-> IF "is_reserved" \in cols THEN row.is_reserved ELSE FALSE,
     is_paid        |-> IF "is_paid" \in cols THEN row.is_paid ELSE FALSE,
     reserved_until |-> IF "reserved_until" \in cols THEN row.reserved_until ELSE NoTime,
     payment_id     |-> IF "payment_id" \in cols THEN row.payment_id ELSE NoRef]

ReserveCols == {"user_id", "is_reserved", "reserved_until"}
ReleaseCols == {"user_id", "is_reserved", "reserved_until"}
InitCols == {"reserved_until", "payment_id"}
PaidCols == {"is_paid", "is_reserved", "reserved_until"}
FreeCols == {"user_id", "is_paid", "payment_id"}

\* result.scalars().all(): the rows matching a query, as loaded objects
Load(ids, cols) == [id \in ids |-> Loaded(tickets[id], cols)]

\* At most MaxInFlight requests and sweeps are between their first and their
\* last round trip at a time.
InFlight == BagCardinality(proc) + (IF sweep.pc # "idle" THEN 1 ELSE 0)

CanStart == InFlight < MaxInFlight

\* the requests in flight at a given step of a given handler
At(op, pc) == {r \in BagToSet(proc) : r.op = op /\ r.pc = pc}

\* a request enters its first await, moves to its next one, returns
Start(r) == proc' = proc (+) SetToBag({r})
Step(r, r2) == proc' = (proc (-) SetToBag({r})) (+) SetToBag({r2})
Return(r) == proc' = proc (-) SetToBag({r})

\* success, tickets = await update_tickets_payment_status(...): the call
\* returns and the task that awaited it, if one did, has its first component
Returns(r, success) ==
    /\ Return(r)
    /\ tasks' = IF r.task = NoTask THEN tasks
                ELSE [tasks EXCEPT ![r.task].success = success]

\* ------------------------------------------------------ availability
\* get_available_tickets: the prize's ticket_count and, in the same query, the
\* array of the numbers of its rows that are reserved or paid; the answer is
\* set(range(1, ticket_count + 1)) - set(reserved_tickets), sorted.
get_available_tickets(pz) ==
    LET reserved_tickets ==
            {id[2] : id \in {i \in TicketIds :
                /\ i[1] = pz
                /\ tickets[i].is_reserved \/ tickets[i].is_paid}}
    IN  (1..prizes[pz].ticket_count) \ reserved_tickets

\* prize_announcer.get_available_ticket_numbers: loads the prize, then every
\* row of the prize, and subtracts the numbers of the paid or reserved rows.
paid_numbers_only(pz) ==
    LET rows == {i \in TicketIds : i[1] = pz}
        unavailable == {id[2] : id \in {i \in rows : tickets[i].is_paid}}
    IN  (1..prizes[pz].ticket_count) \ unavailable

get_available_ticket_numbers(pz) ==
    LET rows == {i \in TicketIds : i[1] = pz}
        unavailable == {id[2] : id \in
            {i \in rows : tickets[i].is_paid \/ tickets[i].is_reserved}}
    IN  (1..prizes[pz].ticket_count) \ unavailable

\* Prize.get_available_tickets: for every number of range(1, ticket_count + 1)
\* the row of self.tickets with that number, if there is one; the number is
\* available when there is no row or the row is neither reserved nor paid.
Prize_get_available_tickets(pz) ==
    LET self_tickets == {i \in TicketIds : i[1] = pz}
        ticket(n) == {i \in self_tickets : i[2] = n}
    IN  {n \in 1..prizes[pz].ticket_count :
            \/ ticket(n) = {}
            \/ \A i \in ticket(n) :
                    ~tickets[i].is_reserved /\ ~tickets[i].is_paid}

ActivePrizes == {pz \in Prizes : prizes[pz].is_active}

Min(S) == CHOOSE x \in S : \A y \in S : x <= y

\* the held, unpaid tickets of a user (a primary key, or NoUser for IS NULL)
HeldBy(uid) ==
    {id \in TicketIds : /\ tickets[id].user_id = uid
                        /\ tickets[id].is_reserved
                        /\ ~tickets[id].is_paid}

\* -------------------------------------------------------------- Init
\* The columns get_pending_prize filters on and the back-office reads and
\* displays (winner_determined, winner, winning_ticket); both model files
\* leave them out.  A prize has no winner until one is drawn (spec.md, Prize:
\* "winner reference (ticket + user, nullable until drawn)").
WinnerDetermined == FALSE
NoNumber == 0

\* Prize 1 runs from the start to the last instant of the clock, prize 2 is
\* scheduled after it: Prize.clean admits no overlapping periods.
InitPrize(pz, active, count) ==
    [is_active |-> active, ticket_price |-> IF pz = 1 THEN 100 ELSE 0,
     ticket_count |-> count,
     start_date |-> IF pz = 1 THEN 0 ELSE MaxTime + 1,
     end_date |-> IF pz = 1 THEN MaxTime ELSE MaxTime + 3,
     winner_determined |-> WinnerDetermined,
     winner |-> NoUser, winning_ticket |-> NoNumber]

IdleJob == [pc |-> "idle", snap |-> {}, prize |-> 0]
IdleAdmin == [pc |-> "idle", prize |-> 0, is_active |-> FALSE, start_date |-> 0, end_date |-> 0]
IdleFinish == [pc |-> "idle", now |-> <<>>, snap |-> <<>>]

InitCommon ==
    /\ now = 0
    /\ tickets = [id \in TicketIds |-> FreeTicket]
    /\ payments = <<>>
    /\ gateway = <<>>
    /\ proc = EmptyBag
    /\ sweep = [pc |-> "idle", now |-> 0, snap |-> <<>>, prev |-> NoSweep]
    /\ ann = IdleJob
    /\ adm = IdleAdmin
    /\ swept = NoSweep
    /\ tasks = <<>>
    /\ reservation_timers = [tg \in TelegramIds |-> NoTask]
    /\ payment_check_timers = <<>>
    /\ restarts = 0
    /\ fin = IdleFinish

\* The priced prize is running.
Init ==
    /\ InitCommon
    /\ prizes = [pz \in Prizes |-> InitPrize(pz, pz = 1, NumTickets)]

\* ----------------------------------------------------------- reserve
\* What reserve_tickets answers at lines 118-139, before it touches a ticket.
reserve_rejection(pz, nums) ==
    IF ~prizes[pz].is_active THEN "inactive"
    ELSE IF nums \ get_available_tickets(pz) # {} THEN "unavailable"
    ELSE "none"

\* reserve_tickets, lines 112-142: prize and user lookups, the availability
\* read and the computation of reservation_time.  A rejected request returns
\* here and leaves the store as it is.
reserve_tickets_check(u, pz, nums) ==
    /\ CanStart
    /\ IF reserve_rejection(pz, nums) # "none"
       THEN UNCHANGED proc
       ELSE Start([Request EXCEPT !.op = "reserve", !.pc = "select",
                                  !.user = telegram_id(u), !.prize = pz, !.nums = nums,
                                  !.owner = user_by_telegram_id(telegram_id(u)),
                                  !.todo = nums, !.until = now + ReserveMinutes])
    /\ UNCHANGED <<now, prizes, tickets, payments, gateway, sweep, ann, adm, swept, process>>

\* lines 153-156: a row found reserved or paid is skipped (continue)
reserve_skips(row) == row.is_reserved \/ row.is_paid

\* lines 144-178: one pass of the loop, the SELECT of the next requested number.
reserve_tickets_select(r) ==
    /\ r \in At("reserve", "select")
    /\ LET n == Min(r.todo)
           id == <<r.prize, n>>
           row == tickets[id]
           rest == r.todo \ {n}
           snap2 == IF reserve_skips(row)
                    THEN r.snap
                    ELSE [i \in DOMAIN r.snap \cup {id} |->
                            IF i = id THEN Loaded(row, ReserveCols) ELSE r.snap[i]]
       IN  Step(r, [r EXCEPT !.todo = rest, !.snap = snap2,
                             !.pc = IF rest = {} THEN "commit" ELSE "select"])
    /\ UNCHANGED <<now, prizes, tickets, payments, gateway, sweep, ann, adm, swept, process>>

\* the assignments of lines 159-161 to a loaded ticket
ReserveAssign(row, uid, until) ==
    [row EXCEPT !.user_id = uid, !.is_reserved = TRUE, !.reserved_until = until]

\* line 183: return True, reserved_tickets, ... (the numbers not skipped)
reserved_tickets(r) == {id[2] : id \in DOMAIN r.snap}

\* lines 180-183: commit and report success
reserve_tickets_commit(r) ==
    /\ r \in At("reserve", "commit")
    /\ LET new == [id \in DOMAIN r.snap |-> ReserveAssign(r.snap[id], r.owner, r.until)]
       IN  tickets' = Commit(tickets, r.snap, new)
    /\ Return(r)
    /\ swept' = NoSweep
    /\ UNCHANGED <<now, prizes, payments, gateway, sweep, ann, adm, process>>

\* --------------------------------------------------------- cancelAll
\* a release that detaches the user and leaves the hold in place
release_keeps_hold(row) == [row EXCEPT !.user_id = NoUser]

\* the assignments of lines 216-218 (and 248-250) to a loaded ticket
ReleaseAssign(row) ==
    [row EXCEPT !.is_reserved = FALSE, !.reserved_until = NoTime, !.user_id = NoUser]

\* What a function that ends without a return statement hands to its caller.
None == <<>>

\* What cancel_all_reservations returns.  Line 203: no such user.  Line 222:
\* the reservations found were cancelled.  With a user and nothing found the
\* body ends after line 214 without a return statement.
cancel_all_reservations_result(tg) ==
    LET uid == user_by_telegram_id(tg)
    IN  IF uid = NoUser THEN <<TRUE, "no_reservations">>
        ELSE IF HeldBy(uid) # {} THEN <<TRUE, "cancelled">>
        ELSE None

\* cancel_all_reservations, lines 195-212: the user lookup and the SELECT of
\* the user's reserved, unpaid tickets of every prize.  With nothing found
\* the function ends without a commit.
cancel_all_reservations_select(u) ==
    /\ CanStart
    /\ LET held == HeldBy(user_by_telegram_id(telegram_id(u)))
       IN  IF held = {}
           THEN UNCHANGED proc
           ELSE Start([Request EXCEPT !.op = "cancel", !.pc = "commit",
                                      !.user = telegram_id(u),
                                      !.snap = Load(held, ReleaseCols)])
    /\ UNCHANGED <<now, prizes, tickets, payments, gateway, sweep, ann, adm, swept, process>>

\* lines 214-222
cancel_all_reservations_commit(r) ==
    /\ r \in At("cancel", "commit")
    /\ LET new == [id \in DOMAIN r.snap |-> ReleaseAssign(r.snap[id])]
       IN  tickets' = Commit(tickets, r.snap, new)
    /\ Return(r)
    /\ UNCHANGED <<now, prizes, payments, gateway, sweep, ann, adm, swept, process>>

\* ---------------------------------------------------- releaseExpired
\* a scan that finds only the holds that ended more than a minute ago
expired_a_minute_ago(row, t) ==
    /\ row.is_reserved
    /\ ~row.is_paid
    /\ row.reserved_until # NoTime
    /\ row.reserved_until + 1 < t

\* lines 237-241: Ticket.is_reserved, not Ticket.is_paid, reserved_until < now
\* (a NULL reserved_until never satisfies the comparison)
IsExpired(row, t) ==
    /\ row.is_reserved
    /\ ~row.is_paid
    /\ row.reserved_until # NoTime
    /\ row.reserved_until < t

\* check_and_release_expired_reservations, lines 234-243: now and the SELECT
check_and_release_expired_reservations_select ==
    /\ sweep.pc = "idle"
    /\ InFlight < MaxInFlight
    /\ LET expired == {id \in TicketIds : IsExpired(tickets[id], now)}
       IN  /\ sweep' = [pc |-> "commit", now |-> now, snap |-> Load(expired, ReleaseCols),
                        prev |-> swept]
           /\ swept' = [at |-> now, count |-> Cardinality(expired)]
    /\ UNCHANGED <<now, prizes, tickets, payments, gateway, proc, ann, adm, process>>

\* line 259: the returned count
release_count == Cardinality(DOMAIN sweep.snap)

\* lines 246-259: release every loaded ticket, commit when count > 0
check_and_release_expired_reservations_commit ==
    /\ sweep.pc = "commit"
    /\ LET new == [id \in DOMAIN sweep.snap |-> ReleaseAssign(sweep.snap[id])]
       IN  tickets' = Commit(tickets, sweep.snap, new)
    /\ sweep' = [pc |-> "idle", now |-> 0, snap |-> <<>>, prev |-> NoSweep]
    /\ UNCHANGED <<now, prizes, payments, gateway, proc, ann, adm, swept, process>>

\* ---------------------------------------------------------- initiate
\* get_user_reserved_tickets, lines 27-57: the user, the active prize and the
\* user's reserved, unpaid tickets of that prize.  More than one active prize
\* makes scalar_one_or_none raise, which line 58 turns into "nothing found".
get_user_reserved_tickets(uid) ==
    IF Cardinality(ActivePrizes) # 1 THEN {}
    ELSE {id \in HeldBy(uid) : id[1] \in ActivePrizes}

\* init_payment, line 90: total_amount = len(tickets) * ticket_price
total_amount(pz, n) == n * prizes[pz].ticket_price

\* an initiation that goes to the gateway whatever the user holds
never_rejects(uid) == FALSE

\* init_payment, lines 84-86: no tickets, no prize or no user: return None
init_payment_rejects(uid) == get_user_reserved_tickets(uid) = {}

\* init_payment, lines 81-86: load the batch, or give up with nothing held
init_payment_read(u) ==
    /\ CanStart
    /\ LET uid == user_by_telegram_id(telegram_id(u))
           batch == get_user_reserved_tickets(uid)
       IN  IF init_payment_rejects(uid)
           THEN UNCHANGED proc
           ELSE Start([Request EXCEPT !.op = "init", !.pc = "gateway",
                                      !.user = telegram_id(u), !.owner = uid,
                                      !.prize = Min(ActivePrizes),
                                      !.snap = Load(batch, InitCols)])
    /\ UNCHANGED <<now, prizes, tickets, payments, gateway, sweep, ann, adm, swept, process>>

\* init_payment, lines 88-112: the payment the gateway is asked to create: the
\* amount for the loaded batch and, as metadata, the user and the ticket
\* numbers; the gateway answers with status pending
payment_request(r) ==
    [user |-> r.user, status |-> "pending",
     amount |-> total_amount(r.prize, Cardinality(DOMAIN r.snap)),
     tickets |-> DOMAIN r.snap]

\* the assignments of lines 143-149: every ticket of the batch gets the new
\* reserved_until, tickets[0] gets the gateway's payment id
InitAssign(row, until, ref, first) ==
    [row EXCEPT !.reserved_until = until,
                !.payment_id = IF first THEN ref ELSE row.payment_id]

\* lines 128-151: the gateway answers with a payment id and the session commits.
\* tickets[0] is the first row of a SELECT without ORDER BY: any of the batch.
init_payment_gateway_ok(r) ==
    /\ r \in At("init", "gateway")
    /\ Len(gateway) < MaxRefs
    /\ LET ref == <<"pay", Len(gateway) + 1>>
           until == now + PayMinutes
       IN  /\ gateway' = Append(gateway, payment_request(r))
           /\ \E first \in DOMAIN r.snap :
                tickets' = Commit(tickets, r.snap,
                    [id \in DOMAIN r.snap |-> InitAssign(r.snap[id], until, ref, id = first)])
    /\ Return(r)
    /\ swept' = NoSweep
    /\ UNCHANGED <<now, prizes, payments, sweep, ann, adm, process>>

\* lines 135-137, 165-170: the gateway call fails; init_payment returns None
init_payment_gateway_fail(r) ==
    /\ r \in At("init", "gateway")
    /\ Return(r)
    /\ UNCHANGED <<now, prizes, tickets, payments, gateway, sweep, ann, adm, swept, process>>

\* ------------------------------------------------------------ settle
Statuses == {"succeeded", "canceled", "failed"}
IssuedRefs == {<<"pay", k>> : k \in 1..Len(gateway)}

\* update_tickets_payment_status, lines 264-270: the tickets carrying payment_id
TicketsWithRef(ref) == {id \in TicketIds : tickets[id].payment_id = ref}

\* lines 264-274: scalar_one_or_none of the ticket carrying the payment id.
\* No such ticket: return False, [].  Several: the exception handler of line
\* 378 rolls back and returns False, [].
update_tickets_payment_status_find(ref) ==
    /\ CanStart
    /\ ref \in IssuedRefs
    /\ LET found == TicketsWithRef(ref)
       IN  IF Cardinality(found) # 1
           THEN UNCHANGED proc
           ELSE LET id == CHOOSE x \in found : TRUE
                IN  Start([Request EXCEPT !.op = "settle", !.pc = "batch", !.ref = ref,
                                          !.owner = tickets[id].user_id,
                                          !.prize = id[1]])
    /\ UNCHANGED <<now, prizes, tickets, payments, gateway, sweep, ann, adm, swept, process>>

\* a settlement of the one ticket that carries the reference
only_ref_ticket(r) == TicketsWithRef(r.ref)

\* lines 276-285: the reserved, unpaid tickets of the found ticket's user
\* (NULL included) and prize
settle_batch(r) == {id \in HeldBy(r.owner) : id[1] = r.prize}

\* a settlement that is applied whatever the status
any_status(status) == TRUE

\* line 292: if status == "succeeded"
is_succeeded(status) == status = "succeeded"

\* What the call returns at this point.  Lines 287-289: no batch, False, [].
\* Lines 375-377: a status other than succeeded, False, tickets.  Otherwise
\* the call goes on to record the payment and has not returned.
update_tickets_payment_status_result(r, status) ==
    IF settle_batch(r) = {} THEN <<FALSE, {}>>
    ELSE IF ~is_succeeded(status) THEN <<FALSE, settle_batch(r)>>
    ELSE None

\* lines 276-292 and 375-377: the batch is read and the status examined
update_tickets_payment_status_batch(r, status) ==
    /\ r \in At("settle", "batch")
    /\ IF update_tickets_payment_status_result(r, status) # None
       THEN Returns(r, update_tickets_payment_status_result(r, status)[1])
       ELSE /\ Step(r, [r EXCEPT !.pc = "insert", !.status = status,
                                 !.snap = Load(settle_batch(r), PaidCols)])
            /\ UNCHANGED tasks
    /\ UNCHANGED <<now, prizes, tickets, payments, gateway, sweep, ann, adm, swept,
                   reservation_timers, payment_check_timers, restarts, fin>>

\* prizes_payment without the unique index on payment_id
no_unique_index(ref) == FALSE

\* Payment.payment_id is unique=True: an INSERT of a payment id that a
\* committed row already carries fails
payment_id_taken(ref) == \E i \in DOMAIN payments : payments[i].payment_id = ref

\* uniqueness looked up among the committed rows only
insert_never_waits(ref) == FALSE

\* ... and one that an open transaction has inserted waits for that transaction
insert_waits(ref) == \E q \in At("settle", "commit") : q.ref = ref

\* lines 293-353: the user and prize lookups and the INSERT into prizes_payment.
\* No user row (the found ticket had no owner): return False, [].  A duplicate
\* payment id: IntegrityError, rollback, return False, [].
update_tickets_payment_status_insert(r) ==
    /\ r \in At("settle", "insert")
    /\ ~insert_waits(r.ref)
    /\ IF r.owner = NoUser \/ payment_id_taken(r.ref)
       THEN Returns(r, FALSE)
       ELSE Step(r, [r EXCEPT !.pc = "commit"]) /\ UNCHANGED tasks
    /\ UNCHANGED <<now, prizes, tickets, payments, gateway, sweep, ann, adm, swept,
                   reservation_timers, payment_check_timers, restarts, fin>>

\* the assignments of lines 366-368 to a loaded ticket
PaidAssign(row) ==
    [row EXCEPT !.is_paid = TRUE, !.is_reserved = FALSE, !.reserved_until = NoTime]

\* lines 343-351 and 357-362: the Payment row and its ticket links
PaymentRow(r) ==
    [payment_id |-> r.ref, user_id |-> r.owner, prize_id |-> r.prize,
     amount |-> total_amount(r.prize, Cardinality(DOMAIN r.snap)),
     tickets |-> DOMAIN r.snap]

\* lines 356-374: link rows, ticket updates, commit; return True, tickets
update_tickets_payment_status_commit(r) ==
    /\ r \in At("settle", "commit")
    /\ LET new == [id \in DOMAIN r.snap |-> PaidAssign(r.snap[id])]
       IN  /\ tickets' = Commit(tickets, r.snap, new)
           /\ payments' = Append(payments, PaymentRow(r))
    /\ Returns(r, TRUE)
    /\ UNCHANGED <<now, prizes, gateway, sweep, ann, adm, swept,
                   reservation_timers, payment_check_timers, restarts, fin>>

\* -------------------------------------------------------- free claim
\* process_ticket_numbers, line 232: ticket_price is None or 0
is_free_prize(pz) == prizes[pz].ticket_price = 0

\* process_ticket_numbers, lines 244-273: what the handler answers before it
\* looks at the user.  Line 248: more than one number for a free prize.
\* Line 258: a number that is not available.
process_ticket_numbers_rejection(pz, nums) ==
    IF is_free_prize(pz) /\ Cardinality(nums) > 1 THEN "one_ticket_only"
    ELSE IF nums \ get_available_tickets(pz) # {} THEN "unavailable"
    ELSE "none"

\* process_ticket_numbers, lines 223-273, for a free prize: the active prize,
\* the one-number limit and the availability read.  A rejected message is
\* answered here.
process_ticket_numbers_check(u, pz, nums) ==
    /\ CanStart
    /\ ActivePrizes = {pz}
    /\ is_free_prize(pz)
    /\ IF process_ticket_numbers_rejection(pz, nums) # "none"
       THEN UNCHANGED proc
       ELSE Start([Request EXCEPT !.op = "free", !.pc = "existing",
                                  !.user = telegram_id(u), !.prize = pz, !.nums = nums])
    /\ UNCHANGED <<now, prizes, tickets, payments, gateway, sweep, ann, adm, swept, process>>

\* lines 293-301: the user's paid tickets of the prize
existing_tickets(uid, pz) ==
    {id \in TicketIds : id[1] = pz /\ tickets[id].user_id = uid /\ tickets[id].is_paid}

\* lines 279-309: the user lookup and the read of the user's paid tickets;
\* a user who has one is told so and the request ends
process_ticket_numbers_existing(r) ==
    /\ r \in At("free", "existing")
    /\ LET uid == user_by_telegram_id(r.user)
       IN  IF uid = NoUser \/ existing_tickets(uid, r.prize) # {}
           THEN Return(r)
           ELSE Step(r, [r EXCEPT !.pc = "select", !.owner = uid])
    /\ UNCHANGED <<now, prizes, tickets, payments, gateway, sweep, ann, adm, swept, process>>

\* lines 315-332: the SELECT of the ticket by prize and number with
\* user_id IS NULL and is_paid = False; no row: "already taken"
process_ticket_numbers_select(r) ==
    /\ r \in At("free", "select")
    /\ LET id == <<r.prize, Min(r.nums)>>
           row == tickets[id]
       IN  IF row.user_id = NoUser /\ ~row.is_paid
           THEN Step(r, [r EXCEPT !.pc = "commit",
                                  !.snap = Load({id}, FreeCols)])
           ELSE Return(r)
    /\ UNCHANGED <<now, prizes, tickets, payments, gateway, sweep, ann, adm, swept, process>>

\* a claim that is written as a hold
free_claim_as_hold(row, uid, ref) ==
    [row EXCEPT !.user_id = uid, !.is_reserved = TRUE, !.payment_id = ref]

\* the assignments of lines 335-337 to the loaded ticket
FreeAssign(row, uid, ref) ==
    [row EXCEPT !.user_id = uid, !.is_paid = TRUE, !.payment_id = ref]

\* line 337: f"free_{user.id}_{prize_id}_{datetime.now().timestamp()}"
free_payment_id(tg, pz, t) == <<"free", tg, pz, t>>

\* lines 335-340: mark the ticket paid for the user and commit
process_ticket_numbers_commit(r) ==
    /\ r \in At("free", "commit")
    /\ LET ref == free_payment_id(r.user, r.prize, now)
           new == [id \in DOMAIN r.snap |-> FreeAssign(r.snap[id], r.owner, ref)]
       IN  tickets' = Commit(tickets, r.snap, new)
    /\ Return(r)
    /\ UNCHANGED <<now, prizes, payments, gateway, sweep, ann, adm, swept, process>>

\* ---------------------------------------------------- prize activation
\* deactivate_all_active_prizes, lines 263-265: the active prizes
deactivate_all_active_prizes_select ==
    /\ ann.pc = "idle"
    /\ ann' = [IdleJob EXCEPT !.pc = "deactivate", !.snap = ActivePrizes]
    /\ UNCHANGED <<now, prizes, tickets, payments, gateway, proc, sweep, adm, swept, process>>

\* lines 268-281: a loaded prize with end_date <= now is set inactive
deactivate_all_active_prizes_commit ==
    /\ ann.pc = "deactivate"
    /\ prizes' = [pz \in Prizes |->
            IF pz \in ann.snap /\ prizes[pz].end_date <= now
            THEN [prizes[pz] EXCEPT !.is_active = FALSE]
            ELSE prizes[pz]]
    /\ ann' = [IdleJob EXCEPT !.pc = "get_active"]
    /\ UNCHANGED <<now, tickets, payments, gateway, proc, sweep, adm, swept, process>>

\* check_and_announce_prizes, lines 293-306: get_active_prize.  One active
\* prize: its announcement is refreshed.  Several: scalar_one_or_none raises
\* and line 327 ends the run.  None: go on to the pending prize.
get_active_prize ==
    /\ ann.pc = "get_active"
    /\ ann' = IF ActivePrizes = {} THEN [IdleJob EXCEPT !.pc = "get_pending"] ELSE IdleJob
    /\ UNCHANGED <<now, prizes, tickets, payments, gateway, proc, sweep, adm, swept, process>>

\* get_pending_prize, lines 60-65: not active, no winner yet, started, not ended
PendingPrizes ==
    {pz \in Prizes : /\ ~prizes[pz].is_active
                     /\ ~prizes[pz].winner_determined
                     /\ prizes[pz].start_date <= now
                     /\ prizes[pz].end_date > now}

\* lines 309-311: get_pending_prize; none, or several (scalar_one_or_none
\* raises), ends the run
get_pending_prize ==
    /\ ann.pc = "get_pending"
    /\ ann' = IF Cardinality(PendingPrizes) = 1
              THEN [IdleJob EXCEPT !.pc = "activate", !.prize = Min(PendingPrizes)]
              ELSE IdleJob
    /\ UNCHANGED <<now, prizes, tickets, payments, gateway, proc, sweep, adm, swept, process>>

\* lines 313-325: the pending prize is set active, announced and committed
activate_pending_prize ==
    /\ ann.pc = "activate"
    /\ prizes' = [prizes EXCEPT ![ann.prize].is_active = TRUE]
    /\ ann' = IdleJob
    /\ UNCHANGED <<now, tickets, payments, gateway, proc, sweep, adm, swept, process>>

\* ------------------------------------------------------- prize expiry
\* prize_repository.py, line 23: moscow_offset = timedelta(hours=3)
MoscowOffset == 3

\* convert_to_moscow_time, lines 13-28: a naive datetime is taken as UTC; the
\* result is the same instant as an aware datetime of UTC+3 (its wall time
\* and its offset)
convert_to_moscow_time(dt) == [wall |-> dt + MoscowOffset, utcoffset |-> MoscowOffset]

\* get_current_moscow_time, lines 31-36
get_current_moscow_time == convert_to_moscow_time(now)

\* a < b of two aware datetimes: their instants are compared
aware_lt(a, b) == a.wall - a.utcoffset < b.wall - b.utcoffset

\* check_and_finish_expired_prizes, lines 273-279: now and the active prizes
check_and_finish_expired_prizes_select ==
    /\ fin.pc = "idle"
    /\ fin' = [pc |-> "commit", now |-> get_current_moscow_time,
               snap |-> [pz \in ActivePrizes |-> prizes[pz].end_date]]
    /\ UNCHANGED <<now, prizes, tickets, payments, gateway, proc, sweep, ann, adm, swept,
                   tasks, reservation_timers, payment_check_timers, restarts>>

\* lines 281-291: the loaded prizes whose end date lies before now
finished_prizes ==
    {pz \in DOMAIN fin.snap : aware_lt(convert_to_moscow_time(fin.snap[pz]), fin.now)}

\* lines 283-297: every finished prize is set inactive and the session commits
check_and_finish_expired_prizes_commit ==
    /\ fin.pc = "commit"
    /\ prizes' = [pz \in Prizes |->
            IF pz \in finished_prizes
            THEN [prizes[pz] EXCEPT !.is_active = FALSE]
            ELSE prizes[pz]]
    /\ fin' = IdleFinish
    /\ UNCHANGED <<now, tickets, payments, gateway, proc, sweep, ann, adm, swept,
                   tasks, reservation_timers, payment_check_timers, restarts>>

\* ---------------------------------------------------------- back-office
\* the dates a prize form can carry
Instants == 0..MaxDate

\* an overlap query without its third alternative
overlapping_at_an_end(pz, start, end) ==
    {o \in Prizes \ {pz} :
        \/ prizes[o].start_date <= start /\ prizes[o].end_date >= start
        \/ prizes[o].start_date <= end /\ prizes[o].end_date >= end}

\* Prize.clean, lines 76-81: the other prizes that contain the start of the
\* period, or its end, or lie within it
overlapping_prizes(pz, start, end) ==
    {o \in Prizes \ {pz} :
        \/ prizes[o].start_date <= start /\ prizes[o].end_date >= start
        \/ prizes[o].start_date <= end /\ prizes[o].end_date >= end
        \/ prizes[o].start_date >= start /\ prizes[o].end_date <= end}

\* Prize.clean, lines 53-93, for the change form of a prize: another active
\* prize, an end date that is not after the start date or not in the future,
\* or a period that overlaps another prize's, is a ValidationError.
clean_rejects(pz, active, start, end) ==
    \/ active /\ ActivePrizes \ {pz} # {}
    \/ end <= start
    \/ end <= now
    \/ overlapping_prizes(pz, start, end) # {}

\* the form is validated
admin_clean(pz, active, start, end) ==
    /\ adm.pc = "idle"
    /\ adm' = IF clean_rejects(pz, active, start, end)
              THEN IdleAdmin
              ELSE [pc |-> "save", prize |-> pz, is_active |-> active,
                    start_date |-> start, end_date |-> end]
    /\ UNCHANGED <<now, prizes, tickets, payments, gateway, proc, sweep, ann, swept, process>>

\* PrizeAdmin.save_model, lines 338-343: activating a prize sets every other
\* prize inactive, then the prize is saved
save_model ==
    /\ adm.pc = "save"
    /\ prizes' = [pz \in Prizes |->
            IF pz = adm.prize THEN [prizes[pz] EXCEPT !.is_active = adm.is_active,
                                                      !.start_date = adm.start_date,
                                                      !.end_date = adm.end_date]
            ELSE IF adm.is_active THEN [prizes[pz] EXCEPT !.is_active = FALSE]
            ELSE prizes[pz]]
    /\ adm' = IdleAdmin
    /\ UNCHANGED <<now, tickets, payments, gateway, proc, sweep, ann, swept, process>>

\* ------------------------------------------------------ winner draw
\* every ticket of the prize, paid or not
tickets_of_prize(pz) == {id \in TicketIds : id[1] = pz}

\* determine_winner_view, line 291: prize.tickets.filter(is_paid=True)
paid_tickets(pz) == {id \in TicketIds : id[1] = pz /\ tickets[id].is_paid}

\* determine_winner_view, lines 274-297 (determine_winner_action, lines
\* 168-191): what the view answers before it draws
determine_winner_view_rejection(pz) ==
    IF prizes[pz].winner_determined THEN "already_determined"
    ELSE IF paid_tickets(pz) = {} THEN "no_paid_tickets"
    ELSE "none"

\* lines 271-297: the prize is loaded and checked; a rejected request is
\* answered with a warning or an error and redirected
determine_winner_view(pz) ==
    /\ CanStart
    /\ IF determine_winner_view_rejection(pz) # "none"
       THEN UNCHANGED proc
       ELSE Start([Request EXCEPT !.op = "draw", !.pc = "draw", !.prize = pz])
    /\ UNCHANGED <<now, prizes, tickets, payments, gateway, sweep, ann, adm, swept, process>>

\* a draw that never finds a recorded winner
never_drawn(pz) == FALSE

\* Prize.determine_winner (called at line 301, not part of the source tree;
\* spec.md 4.4): an already drawn prize is rejected
already_drawn(pz) == prizes[pz].winner_determined

\* Prize.determine_winner (spec.md 4.4): rejected on a drawn prize and on a
\* prize without paid tickets; otherwise one of the paid tickets is picked,
\* its owner and its number are recorded and the prize is marked drawn
determine_winner(r) ==
    /\ r \in At("draw", "draw")
    /\ IF already_drawn(r.prize) \/ paid_tickets(r.prize) = {}
       THEN UNCHANGED prizes
       ELSE \E id \in paid_tickets(r.prize) :
                prizes' = [prizes EXCEPT ![r.prize].winner_determined = TRUE,
                                         ![r.prize].winner = tickets[id].user_id,
                                         ![r.prize].winning_ticket = id[2]]
    /\ Return(r)
    /\ UNCHANGED <<now, tickets, payments, gateway, sweep, ann, adm, swept, process>>

\* ------------------------------------------------------------ timers
\* An asyncio task: the coroutine it runs, its arguments, the await it is
\* suspended at, and whether cancel() was called on it and the CancelledError
\* is still to be thrown into it.
Task == [coro |-> "", user |-> NoUser, payment_id |-> NoRef, pc |-> "sleep",
         must_cancel |-> FALSE, polls |-> 0, success |-> FALSE]

TaskIds == DOMAIN tasks

\* the tasks that have not finished and were not asked to stop
LiveTasks == {t \in TaskIds : tasks[t].pc # "done" /\ ~tasks[t].must_cancel}

\* task.cancel(): a request to stop, ignored by a task that has finished
cancel(ts, t) ==
    IF t = NoTask \/ ts[t].pc = "done" THEN ts ELSE [ts EXCEPT ![t].must_cancel = TRUE]

\* tickets.py, lines 148-150 and 422-424: the user's timer, if the registry
\* has one, is cancelled and its entry deleted
cancel_reservation_timer(tg) ==
    /\ tasks' = cancel(tasks, reservation_timers[tg])
    /\ reservation_timers' = [reservation_timers EXCEPT ![tg] = NoTask]

\* the requests a task is waiting for
Awaited(t) == {r \in BagToSet(proc) : r.task = t}

\* the bag without the requests a task was waiting for
Abandon(t) == [r \in BagToSet(proc) \ Awaited(t) |-> CopiesIn(r, proc)]

\* buy_ticket, lines 145-152: the timer of the user is stopped and the call
\* of cancel_all_reservations begins
buy_ticket(u) ==
    /\ CanStart
    /\ cancel_reservation_timer(telegram_id(u))
    /\ Start([Request EXCEPT !.op = "cancel", !.pc = "select", !.user = telegram_id(u)])
    /\ UNCHANGED <<now, prizes, tickets, payments, gateway, sweep, ann, adm, swept,
                   payment_check_timers, restarts, fin>>

\* cancel_all_reservations, lines 195-212, as a round trip of a call that has
\* begun: the SELECT of the user's reserved, unpaid tickets; with nothing
\* found the call ends
cancel_all_reservations_load(r) ==
    /\ r \in At("cancel", "select")
    /\ LET held == HeldBy(user_by_telegram_id(r.user))
       IN  IF held = {}
           THEN Return(r)
           ELSE Step(r, [r EXCEPT !.pc = "commit", !.snap = Load(held, ReleaseCols)])
    /\ UNCHANGED <<now, prizes, tickets, payments, gateway, sweep, ann, adm, swept, process>>

\* process_ticket_numbers, lines 366-396: reserve_tickets commits and returns
\* success, the handler sends its answer
process_ticket_numbers_reserved(r) ==
    /\ r \in At("reserve", "commit")
    /\ LET new == [id \in DOMAIN r.snap |-> ReserveAssign(r.snap[id], r.owner, r.until)]
       IN  tickets' = Commit(tickets, r.snap, new)
    /\ Step(r, [r EXCEPT !.pc = "timer"])
    /\ swept' = NoSweep
    /\ UNCHANGED <<now, prizes, payments, gateway, sweep, ann, adm, process>>

\* process_ticket_numbers, lines 398-409: the timer of the user found in the
\* registry is cancelled, a new one is created and registered
process_ticket_numbers_timer(r) ==
    /\ r \in At("reserve", "timer")
    /\ Len(tasks) < MaxTasks
    /\ tasks' = Append(cancel(tasks, reservation_timers[r.user]),
                       [Task EXCEPT !.coro = "cancel_reservation_after_timeout",
                                    !.user = r.user])
    /\ reservation_timers' = [reservation_timers EXCEPT ![r.user] = Len(tasks) + 1]
    /\ Return(r)
    /\ UNCHANGED <<now, prizes, tickets, payments, gateway, sweep, ann, adm, swept,
                   payment_check_timers, restarts, fin>>

\* cancel_reservation_after_timeout, lines 39-42: the sleep is over and the
\* call of cancel_all_reservations begins
cancel_reservation_after_timeout_wake(t) ==
    /\ t \in LiveTasks
    /\ tasks[t].coro = "cancel_reservation_after_timeout"
    /\ tasks[t].pc = "sleep"
    /\ CanStart
    /\ Start([Request EXCEPT !.op = "cancel", !.pc = "select", !.user = tasks[t].user,
                              !.task = t])
    /\ tasks' = [tasks EXCEPT ![t].pc = "cancel_all"]
    /\ UNCHANGED <<now, prizes, tickets, payments, gateway, sweep, ann, adm, swept,
                   reservation_timers, payment_check_timers, restarts, fin>>

\* lines 52-54: if user_id in reservation_timers: del reservation_timers[user_id]
timer_cleanup(tg) == [reservation_timers EXCEPT ![tg] = NoTask]

\* lines 42-54: cancel_all_reservations has returned (a pair, or None, which
\* line 42 fails to unpack and line 50 logs); the finally clause runs
cancel_reservation_after_timeout_finally(t) ==
    /\ t \in LiveTasks
    /\ tasks[t].coro = "cancel_reservation_after_timeout"
    /\ tasks[t].pc = "cancel_all"
    /\ Awaited(t) = {}
    /\ tasks' = [tasks EXCEPT ![t].pc = "done"]
    /\ reservation_timers' = timer_cleanup(tasks[t].user)
    /\ UNCHANGED <<now, prizes, tickets, payments, gateway, proc, sweep, ann, adm, swept,
                   payment_check_timers, restarts, fin>>

\* lines 50-54: the CancelledError is thrown into the suspended task; it is
\* no Exception, line 50 lets it pass, and the finally clause runs.  A call
\* the task was waiting for is abandoned, its session rolled back.
cancel_reservation_after_timeout_cancelled(t) ==
    /\ t \in TaskIds
    /\ tasks[t].coro = "cancel_reservation_after_timeout"
    /\ tasks[t].pc # "done"
    /\ tasks[t].must_cancel
    /\ tasks' = [tasks EXCEPT ![t].pc = "done", ![t].must_cancel = FALSE]
    /\ reservation_timers' = timer_cleanup(tasks[t].user)
    /\ proc' = Abandon(t)
    /\ UNCHANGED <<now, prizes, tickets, payments, gateway, sweep, ann, adm, swept,
                   payment_check_timers, restarts, fin>>

\* -------------------------------------------------------- payment poll
\* process_payment, lines 418-432: the hold timer of the user is stopped and
\* the call of init_payment begins
process_payment(u) ==
    /\ CanStart
    /\ cancel_reservation_timer(telegram_id(u))
    /\ Start([Request EXCEPT !.op = "init", !.pc = "read", !.user = telegram_id(u)])
    /\ UNCHANGED <<now, prizes, tickets, payments, gateway, sweep, ann, adm, swept,
                   payment_check_timers, restarts, fin>>

\* init_payment, lines 81-86, as a round trip of a call that has begun
init_payment_load(r) ==
    /\ r \in At("init", "read")
    /\ LET uid == user_by_telegram_id(r.user)
       IN  IF init_payment_rejects(uid)
           THEN Return(r)
           ELSE Step(r, [r EXCEPT !.pc = "gateway", !.owner = uid,
                                  !.prize = Min(ActivePrizes),
                                  !.snap = Load(get_user_reserved_tickets(uid), InitCols)])
    /\ UNCHANGED <<now, prizes, tickets, payments, gateway, sweep, ann, adm, swept, process>>

\* init_payment, lines 128-164, and process_payment, lines 434-446: the
\* gateway answers with a payment id, the session commits and the handler
\* shows the payment link
process_payment_initiated(r) ==
    /\ r \in At("init", "gateway")
    /\ Len(gateway) < MaxRefs
    /\ LET ref == <<"pay", Len(gateway) + 1>>
           until == now + PayMinutes
       IN  /\ gateway' = Append(gateway, payment_request(r))
           /\ \E first \in DOMAIN r.snap :
                tickets' = Commit(tickets, r.snap,
                    [id \in DOMAIN r.snap |-> InitAssign(r.snap[id], until, ref, id = first)])
           /\ Step(r, [r EXCEPT !.pc = "poll", !.ref = ref])
    /\ swept' = NoSweep
    /\ UNCHANGED <<now, prizes, payments, sweep, ann, adm, process>>

\* payment_check_timers[payment_id] = task
Register(reg, key, t) == [k \in DOMAIN reg \cup {key} |-> IF k = key THEN t ELSE reg[k]]

\* if payment_id in payment_check_timers: del payment_check_timers[payment_id]
Unregister(reg, key) == [k \in DOMAIN reg \ {key} |-> reg[k]]

\* process_payment, lines 448-461: a poll loop registered under the payment
\* id is cancelled, a new one is created and registered under it
process_payment_poll(r) ==
    /\ r \in At("init", "poll")
    /\ Len(tasks) < MaxTasks
    /\ tasks' = Append(IF r.ref \in DOMAIN payment_check_timers
                       THEN cancel(tasks, payment_check_timers[r.ref])
                       ELSE tasks,
                       [Task EXCEPT !.coro = "check_payment_status_periodically",
                                    !.user = r.user, !.payment_id = r.ref])
    /\ payment_check_timers' = Register(payment_check_timers, r.ref, Len(tasks) + 1)
    /\ Return(r)
    /\ UNCHANGED <<now, prizes, tickets, payments, gateway, sweep, ann, adm, swept,
                   reservation_timers, restarts, fin>>

\* The payer completes or abandons the payment at the gateway.
payment_outcome(k, status) ==
    /\ k \in DOMAIN gateway
    /\ gateway[k].status = "pending"
    /\ gateway' = [gateway EXCEPT ![k].status = status]
    /\ UNCHANGED <<now, prizes, tickets, payments, proc, sweep, ann, adm, swept, process>>

\* check_payment_status: the status of the payment at the gateway
check_payment_status(ref) == gateway[ref[2]].status

\* the poll loops that are between two polls
Polling == {t \in LiveTasks : /\ tasks[t].coro = "check_payment_status_periodically"
                              /\ tasks[t].pc = "sleep"}

\* a loop that goes on polling for ever
polls_for_ever(t) == FALSE

\* line 63: for _ in range(60): the polls of the loop are used up
polls_used_up(t) == tasks[t].polls >= MaxPolls

\* lines 65-70 and 118-119: the poll gets no answer from the gateway, or the
\* payment is still pending; the loop sleeps until the next poll
check_payment_status_periodically_pending(t) ==
    /\ t \in Polling
    /\ ~polls_used_up(t)
    /\ tasks' = [tasks EXCEPT ![t].polls = @ + 1]
    /\ UNCHANGED <<now, prizes, tickets, payments, gateway, proc, sweep, ann, adm, swept,
                   reservation_timers, payment_check_timers, restarts, fin>>

\* check_payment_status_periodically, lines 65-75: the gateway reports
\* succeeded and the call of update_tickets_payment_status begins
check_payment_status_periodically_succeeded(t) ==
    /\ t \in Polling
    /\ ~polls_used_up(t)
    /\ check_payment_status(tasks[t].payment_id) = "succeeded"
    /\ CanStart
    /\ Start([Request EXCEPT !.op = "settle", !.pc = "find", !.ref = tasks[t].payment_id,
                              !.task = t])
    /\ tasks' = [tasks EXCEPT ![t].pc = "settle", ![t].polls = @ + 1]
    /\ UNCHANGED <<now, prizes, tickets, payments, gateway, sweep, ann, adm, swept,
                   reservation_timers, payment_check_timers, restarts, fin>>

\* update_tickets_payment_status, lines 264-274, as a round trip of a call
\* that has begun
update_tickets_payment_status_load(r) ==
    /\ r \in At("settle", "find")
    /\ LET found == TicketsWithRef(r.ref)
       IN  IF Cardinality(found) # 1
           THEN Returns(r, FALSE)
           ELSE LET id == CHOOSE x \in found : TRUE
                IN  /\ Step(r, [r EXCEPT !.pc = "batch", !.owner = tickets[id].user_id,
                                         !.prize = id[1]])
                    /\ UNCHANGED tasks
    /\ UNCHANGED <<now, prizes, tickets, payments, gateway, sweep, ann, adm, swept,
                   reservation_timers, payment_check_timers, restarts, fin>>

\* get_payment_by_id, lines 396-458: the ticket carrying the payment id (none
\* or several: None); the tickets of its user and prize that are paid, or
\* reserved and carrying the payment id; no user row (the ticket has no
\* owner): None; otherwise the count, the amount and the numbers of those
\* tickets
get_payment_by_id(ref) ==
    LET found == TicketsWithRef(ref)
        id    == CHOOSE x \in found : TRUE
        ts    == {x \in TicketIds :
                    /\ tickets[x].user_id = tickets[id].user_id
                    /\ x[1] = id[1]
                    /\ \/ tickets[x].is_paid
                       \/ tickets[x].is_reserved /\ tickets[x].payment_id = ref}
    IN  IF Cardinality(found) # 1 \/ tickets[id].user_id = NoUser THEN None
        ELSE [payment_id |-> ref, user_id |-> telegram_id(tickets[id].user_id),
              prize_id |-> id[1], ticket_count |-> Cardinality(ts),
              amount |-> total_amount(id[1], Cardinality(ts)),
              tickets |-> {x[2] : x \in ts}]

\* lines 77-100 and 119: update_tickets_payment_status has returned.  After a
\* success the Payment row is found, the entry of the loop is deleted and the
\* loop ends; otherwise it sleeps until the next poll.
check_payment_status_periodically_settled(t) ==
    /\ t \in LiveTasks
    /\ tasks[t].coro = "check_payment_status_periodically"
    /\ tasks[t].pc = "settle"
    /\ Awaited(t) = {}
    /\ IF tasks[t].success /\ get_payment_by_id(tasks[t].payment_id) # None
       THEN /\ tasks' = [tasks EXCEPT ![t].pc = "done"]
            /\ payment_check_timers' = Unregister(payment_check_timers, tasks[t].payment_id)
       ELSE /\ tasks' = [tasks EXCEPT ![t].pc = "sleep", ![t].success = FALSE]
            /\ UNCHANGED payment_check_timers
    /\ UNCHANGED <<now, prizes, tickets, payments, gateway, proc, sweep, ann, adm, swept,
                   reservation_timers, restarts, fin>>

\* lines 103-116: the gateway reports canceled or failed; the entry of the
\* loop is deleted and the loop ends
check_payment_status_periodically_terminal(t) ==
    /\ t \in Polling
    /\ ~polls_used_up(t)
    /\ check_payment_status(tasks[t].payment_id) \in {"canceled", "failed"}
    /\ tasks' = [tasks EXCEPT ![t].pc = "done", ![t].polls = @ + 1]
    /\ payment_check_timers' = Unregister(payment_check_timers, tasks[t].payment_id)
    /\ UNCHANGED <<now, prizes, tickets, payments, gateway, proc, sweep, ann, adm, swept,
                   reservation_timers, restarts, fin>>

\* lines 63 and 121-122: sixty polls have passed without a settlement (the
\* payment pending, the gateway not answering, or the settlement refused);
\* the call of cancel_all_reservations begins
check_payment_status_periodically_timeout(t) ==
    /\ t \in Polling
    /\ polls_used_up(t)
    /\ CanStart
    /\ Start([Request EXCEPT !.op = "cancel", !.pc = "select", !.user = tasks[t].user,
                              !.task = t])
    /\ tasks' = [tasks EXCEPT ![t].pc = "cancel_all"]
    /\ UNCHANGED <<now, prizes, tickets, payments, gateway, sweep, ann, adm, swept,
                   reservation_timers, payment_check_timers, restarts, fin>>

\* lines 124-136: cancel_all_reservations has returned, the message is
\* edited and the finally clause deletes the entry of the loop
check_payment_status_periodically_finally(t) ==
    /\ t \in LiveTasks
    /\ tasks[t].coro = "check_payment_status_periodically"
    /\ tasks[t].pc = "cancel_all"
    /\ Awaited(t) = {}
    /\ tasks' = [tasks EXCEPT ![t].pc = "done"]
    /\ payment_check_timers' = Unregister(payment_check_timers, tasks[t].payment_id)
    /\ UNCHANGED <<now, prizes, tickets, payments, gateway, proc, sweep, ann, adm, swept,
                   reservation_timers, restarts, fin>>

\* ----------------------------------------------------------- restart
\* The bot process stops and starts again: its tasks, its registries, the
\* handlers and the scheduler job in flight are gone (their sessions are
\* rolled back); the store keeps what was committed.
Restart ==
    /\ restarts < MaxRestarts
    /\ restarts' = restarts + 1
    /\ tasks' = <<>>
    /\ reservation_timers' = [tg \in TelegramIds |-> NoTask]
    /\ payment_check_timers' = <<>>
    /\ proc' = EmptyBag
    /\ sweep' = [pc |-> "idle", now |-> 0, snap |-> <<>>, prev |-> NoSweep]
    /\ swept' = NoSweep
    /\ fin' = IdleFinish
    /\ UNCHANGED <<now, prizes, tickets, payments, gateway, ann, adm>>

\* ------------------------------------------------------------- clock
\* A request's round trips take less than one unit of the clock (a minute):
\* the clock advances between requests.
Quiet == InFlight = 0 /\ ann.pc = "idle" /\ adm.pc = "idle" /\ fin.pc = "idle"

Tick ==
    /\ now < MaxTime
    /\ Quiet
    /\ now' = now + 1
    /\ UNCHANGED <<prizes, tickets, payments, gateway, proc, sweep, ann, adm, swept, process>>

\* the latest instant a hold made by MaxTime can end at, and the one after it
Horizon == MaxTime + PayMinutes + 1

\* Time goes on after the restart.
Wait ==
    /\ restarts > 0
    /\ now < Horizon
    /\ now' = now + 1
    /\ UNCHANGED <<prizes, tickets, payments, gateway, proc, sweep, ann, adm, swept, process>>

\* the round trips of the bot's requests
RequestStep ==
    \/ \E u \in Users, pz \in Prizes, nums \in (SUBSET Numbers) \ {{}} :
            reserve_tickets_check(u, pz, nums)
    \/ \E r \in BagToSet(proc) : reserve_tickets_select(r)
    \/ \E r \in BagToSet(proc) : reserve_tickets_commit(r)
    \/ \E u \in Users : cancel_all_reservations_select(u)
    \/ \E r \in BagToSet(proc) : cancel_all_reservations_commit(r)
    \/ \E u \in Users : init_payment_read(u)
    \/ \E r \in BagToSet(proc) : init_payment_gateway_ok(r)
    \/ \E r \in BagToSet(proc) : init_payment_gateway_fail(r)
    \/ \E ref \in IssuedRefs : update_tickets_payment_status_find(ref)
    \/ \E r \in BagToSet(proc), status \in Statuses :
            update_tickets_payment_status_batch(r, status)
    \/ \E r \in BagToSet(proc) : update_tickets_payment_status_insert(r)
    \/ \E r \in BagToSet(proc) : update_tickets_payment_status_commit(r)

\* the steps of check_expired_reservations_job
SweepStep ==
    \/ check_and_release_expired_reservations_select
    \/ check_and_release_expired_reservations_commit

\* The requests that reach the bot within one instant of the clock.
Next == RequestStep

Spec == Init /\ [][Next]_vars

\* One ticket on sale, the clock running and the sweep at work.
InitClock ==
    /\ InitCommon
    /\ prizes = [pz \in Prizes |-> InitPrize(pz, pz = 1, ClockTickets)]

NextClock == RequestStep \/ SweepStep \/ Tick

SpecClock == InitClock /\ [][NextClock]_vars

\* The priced prize is running and the back-office has set its ticket_count
\* (Prize.clean admits any positive count): below, at or above the number of
\* ticket rows, which Prize.save creates only when the prize is new.
InitAvail ==
    /\ InitCommon
    /\ \E count \in 1..(NumTickets + 1) :
            prizes = [pz \in Prizes |-> InitPrize(pz, pz = 1, count)]

SpecAvail == InitAvail /\ [][Next]_vars

\* The free prize is running.
InitFree ==
    /\ InitCommon
    /\ prizes = [pz \in Prizes |-> InitPrize(pz, pz = 2, NumTickets)]

\* the round trips of the messages that claim a free ticket
FreeStep ==
    \/ \E u \in Users, pz \in Prizes, nums \in (SUBSET Numbers) \ {{}} :
            process_ticket_numbers_check(u, pz, nums)
    \/ \E r \in BagToSet(proc) : process_ticket_numbers_existing(r)
    \/ \E r \in BagToSet(proc) : process_ticket_numbers_select(r)
    \/ \E r \in BagToSet(proc) : process_ticket_numbers_commit(r)

NextFree == FreeStep

SpecFree == InitFree /\ [][NextFree]_vars

\* No prize is active yet; the announcer and the back-office are at work.
InitLifecycle ==
    /\ InitCommon
    /\ prizes = [pz \in Prizes |-> InitPrize(pz, FALSE, NumTickets)]

\* the steps of announce_prizes_job
AnnounceStep ==
    \/ deactivate_all_active_prizes_select
    \/ deactivate_all_active_prizes_commit
    \/ get_active_prize
    \/ get_pending_prize
    \/ activate_pending_prize

\* the steps of a save in the prize change form, the dates left as they are
AdminStep ==
    \/ \E pz \in Prizes, active \in BOOLEAN :
            admin_clean(pz, active, prizes[pz].start_date, prizes[pz].end_date)
    \/ save_model

NextLifecycle == AnnounceStep \/ AdminStep \/ Tick

SpecLifecycle == InitLifecycle /\ [][NextLifecycle]_vars

\* the round trips of reserve_tickets
ReserveStep ==
    \/ \E u \in Users, pz \in Prizes, nums \in (SUBSET Numbers) \ {{}} :
            reserve_tickets_check(u, pz, nums)
    \/ \E r \in BagToSet(proc) : reserve_tickets_select(r)
    \/ \E r \in BagToSet(proc) : reserve_tickets_commit(r)

\* Reservations and sweeps that arrive one after the other, each starting
\* when the one before it has returned, while the clock runs.
NextSerial ==
    \/ /\ InFlight = 0
       /\ \E u \in Users, pz \in Prizes, nums \in (SUBSET Numbers) \ {{}} :
                reserve_tickets_check(u, pz, nums)
    \/ InFlight = 0 /\ check_and_release_expired_reservations_select
    \/ \E r \in BagToSet(proc) : reserve_tickets_select(r)
    \/ \E r \in BagToSet(proc) : reserve_tickets_commit(r)
    \/ check_and_release_expired_reservations_commit
    \/ Tick

SpecSerial == Init /\ [][NextSerial]_vars

\* the back-office requests that draw a winner
DrawStep ==
    \/ \E pz \in Prizes : determine_winner_view(pz)
    \/ \E r \in BagToSet(proc) : determine_winner(r)

\* The free prize is running; users claim tickets and the back-office draws.
NextDraw == FreeStep \/ DrawStep

SpecDraw == InitFree /\ [][NextDraw]_vars

\* the steps of a save in the prize change form with any dates
WindowStep ==
    \/ \E pz \in Prizes, active \in BOOLEAN, start \in Instants, end \in Instants :
            admin_clean(pz, active, start, end)
    \/ save_model

\* The back-office edits the prizes while the clock runs.
NextWindows == WindowStep \/ Tick

SpecWindows == InitLifecycle /\ [][NextWindows]_vars

\* Reservations arrive while the back-office opens and closes the prizes.
NextRetire == ReserveStep \/ AdminStep

SpecRetire == Init /\ [][NextRetire]_vars

\* the steps of check_expired_prizes_job
FinishStep ==
    \/ check_and_finish_expired_prizes_select
    \/ check_and_finish_expired_prizes_commit

\* Both scheduler jobs that retire prizes run while tickets are reserved and
\* the clock runs.
NextExpiry == AnnounceStep \/ FinishStep \/ ReserveStep \/ Tick

\* Prize 1 is scheduled to end one instant after its start, before the clock
\* stops; no prize is active yet.
InitExpiry ==
    /\ InitCommon
    /\ prizes = [pz \in Prizes |->
            IF pz = 1 THEN [InitPrize(pz, FALSE, NumTickets) EXCEPT !.end_date = @ - 1]
            ELSE InitPrize(pz, FALSE, NumTickets)]

SpecExpiry == InitExpiry /\ [][NextExpiry]_vars

\* the round trips of the handlers that reserve and of the hold timers
TimerStep ==
    \/ \E u \in Users, pz \in Prizes, nums \in (SUBSET Numbers) \ {{}} :
            reserve_tickets_check(u, pz, nums)
    \/ \E r \in BagToSet(proc) : reserve_tickets_select(r)
    \/ \E r \in BagToSet(proc) : process_ticket_numbers_reserved(r)
    \/ \E r \in BagToSet(proc) : process_ticket_numbers_timer(r)
    \/ \E u \in Users : buy_ticket(u)
    \/ \E r \in BagToSet(proc) : cancel_all_reservations_load(r)
    \/ \E r \in BagToSet(proc) : cancel_all_reservations_commit(r)
    \/ \E t \in TaskIds : cancel_reservation_after_timeout_wake(t)
    \/ \E t \in TaskIds : cancel_reservation_after_timeout_finally(t)
    \/ \E t \in TaskIds : cancel_reservation_after_timeout_cancelled(t)

\* One ticket on sale: users select and reserve it; every reservation starts
\* a hold timer.
NextTimers == TimerStep

SpecTimers == InitClock /\ [][NextTimers]_vars

\* the tasks created so far and those the handlers in flight will create
\* (process_ticket_numbers and process_payment create one each)
TasksToCome ==
    Len(tasks) + BagCardinality([r \in {q \in BagToSet(proc) : q.op \in {"reserve", "init"}}
                                    |-> CopiesIn(r, proc)])

\* the updates of a user's chat that the bot handles: ticket numbers, the
\* buy button, the pay button; a handler that creates a task starts while
\* there is room for its task
UpdateStep(u) ==
    \/ /\ TasksToCome < MaxTasks
       /\ \E pz \in Prizes, nums \in (SUBSET Numbers) \ {{}} : reserve_tickets_check(u, pz, nums)
    \/ buy_ticket(u)
    \/ TasksToCome < MaxTasks /\ process_payment(u)

\* the further round trips of the handlers
HandlerStep ==
    \/ \E r \in BagToSet(proc) : reserve_tickets_select(r)
    \/ \E r \in BagToSet(proc) : process_ticket_numbers_reserved(r)
    \/ \E r \in BagToSet(proc) : process_ticket_numbers_timer(r)
    \/ \E r \in BagToSet(proc) : cancel_all_reservations_load(r)
    \/ \E r \in BagToSet(proc) : cancel_all_reservations_commit(r)
    \/ \E r \in BagToSet(proc) : init_payment_load(r)
    \/ \E r \in BagToSet(proc) : init_payment_gateway_fail(r)
    \/ \E r \in BagToSet(proc) : process_payment_initiated(r)
    \/ \E r \in BagToSet(proc) : process_payment_poll(r)
    \/ \E r \in BagToSet(proc) : update_tickets_payment_status_load(r)
    \/ \E r \in BagToSet(proc) : update_tickets_payment_status_batch(r, "succeeded")
    \/ \E r \in BagToSet(proc) : update_tickets_payment_status_insert(r)
    \/ \E r \in BagToSet(proc) : update_tickets_payment_status_commit(r)

\* the steps of the hold timers and of the poll loops
TaskStep ==
    \/ \E t \in TaskIds : cancel_reservation_after_timeout_wake(t)
    \/ \E t \in TaskIds : cancel_reservation_after_timeout_finally(t)
    \/ \E t \in TaskIds : cancel_reservation_after_timeout_cancelled(t)
    \/ \E t \in TaskIds : check_payment_status_periodically_pending(t)
    \/ \E t \in TaskIds : check_payment_status_periodically_succeeded(t)
    \/ \E t \in TaskIds : check_payment_status_periodically_settled(t)
    \/ \E t \in TaskIds : check_payment_status_periodically_terminal(t)
    \/ \E t \in TaskIds : check_payment_status_periodically_timeout(t)
    \/ \E t \in TaskIds : check_payment_status_periodically_finally(t)

\* the payer at the gateway
GatewayStep == \E k \in DOMAIN gateway, status \in Statuses : payment_outcome(k, status)

\* One user's chat, one ticket on sale: the user selects, reserves and pays,
\* hold timers and poll loops run.
NextPolls == UpdateStep(Min(Users)) \/ HandlerStep \/ TaskStep \/ GatewayStep

SpecPolls == InitClock /\ [][NextPolls]_vars

\* the steps of a poll loop and of the call it is waiting for
check_payment_status_periodically(t) ==
    \/ check_payment_status_periodically_pending(t)
    \/ check_payment_status_periodically_succeeded(t)
    \/ check_payment_status_periodically_settled(t)
    \/ check_payment_status_periodically_terminal(t)
    \/ check_payment_status_periodically_timeout(t)
    \/ check_payment_status_periodically_finally(t)
    \/ \E r \in Awaited(t) :
            \/ update_tickets_payment_status_load(r)
            \/ update_tickets_payment_status_batch(r, "succeeded")
            \/ update_tickets_payment_status_insert(r)
            \/ update_tickets_payment_status_commit(r)
            \/ cancel_all_reservations_load(r)
            \/ cancel_all_reservations_commit(r)

\* The event loop resumes every task whose await has completed, and the
\* database and the gateway answer every call of a handler and of a loop.
SpecPollsFair ==
    /\ SpecPolls
    /\ WF_vars(HandlerStep)
    /\ \A t \in 1..MaxTasks : SF_vars(check_payment_status_periodically(t))

\* One user's chat, one ticket on sale and the sweep at work.  The process is
\* restarted at some point of the first minute, the user sends nothing to the
\* restarted bot, and time goes on.
NextRestart ==
    \/ restarts = 0 /\ UpdateStep(Min(Users))
    \/ restarts = 0 /\ HandlerStep
    \/ restarts = 0 /\ TaskStep
    \/ restarts = 0 /\ GatewayStep
    \/ SweepStep
    \/ Restart
    \/ Wait

\* The scheduler runs the sweep every 30 seconds, and time passes.
SpecRestart ==
    InitClock /\ [][NextRestart]_vars /\ WF_vars(SweepStep) /\ SF_vars(Wait)

\* check_payment_status_periodically: range(60) polls, asyncio.sleep(15)
\* between two of them; the minutes a poll loop goes on polling
RangePolls == 60
PollSeconds == 15
PollMinutes == (RangePolls * PollSeconds) \div 60

\* The payer takes longer than the hold that init_payment extended lasts:
\* the clock passes the end of a hold extended now, at an instant at which a
\* poll loop started at the first instant is still polling.
Late ==
    /\ Quiet
    /\ now + PayMinutes + 1 < PollMinutes
    /\ now' = now + PayMinutes + 1
    /\ UNCHANGED <<prizes, tickets, payments, gateway, proc, sweep, ann, adm, swept, process>>

\* One user's chat, one ticket on sale: the user selects, reserves and pays
\* while the hold timers, the poll loops and the sweep run and time passes.
NextHonour ==
    \/ UpdateStep(Min(Users))
    \/ HandlerStep
    \/ TaskStep
    \/ GatewayStep
    \/ SweepStep
    \/ Late

SpecHonour ==
    /\ InitClock
    /\ [][NextHonour]_vars
    /\ WF_vars(HandlerStep)
    /\ WF_vars(SweepStep)
    /\ \A t \in 1..MaxTasks : SF_vars(check_payment_status_periodically(t))

\* ======================================================== properties
\* a row that is held or sold
Taken(row) == row.is_reserved \/ row.is_paid

\* C1: a reservation request that returns success for a ticket has not taken
\* a ticket which another user holds or owns at that moment: of two concurrent
\* requests of different users for the same number at most one succeeds.
C1_NoDoubleSell ==
    [][\A r \in BagToSet(proc) :
        reserve_tickets_commit(r) =>
            \A id \in DOMAIN r.snap :
                Taken(tickets[id]) => tickets[id].user_id \in {r.owner, NoUser}]_vars

\* C2: a reservation request that returns success has reserved every number
\* it was asked for: each is held by the requester until the request's
\* reserved_until.
C2_AllOrNothing ==
    [][\A r \in BagToSet(proc) :
        reserve_tickets_commit(r) =>
            \A n \in r.nums :
                /\ tickets'[<<r.prize, n>>].user_id = r.owner
                /\ tickets'[<<r.prize, n>>].is_reserved
                /\ tickets'[<<r.prize, n>>].reserved_until = r.until]_vars

\* C3: a paid ticket is not reserved and carries no reserved_until.
C3_PaidNotReserved ==
    \A id \in TicketIds :
        tickets[id].is_paid =>
            ~tickets[id].is_reserved /\ tickets[id].reserved_until = NoTime

\* C4: a ticket without an owner is neither reserved nor paid.
C4_OwnerlessIsFree ==
    \A id \in TicketIds :
        tickets[id].user_id = NoUser =>
            ~tickets[id].is_reserved /\ ~tickets[id].is_paid

\* a cancelAll or a releaseExpired execution commits
ReleaseCommits ==
    \/ \E r \in BagToSet(proc) : cancel_all_reservations_commit(r)
    \/ check_and_release_expired_reservations_commit

\* C5: settlement wins: a cancelAll or releaseExpired execution, started
\* before or after the settlement, leaves every paid ticket as it is.
C5_SettlementWins ==
    [][ReleaseCommits =>
        \A id \in TicketIds : tickets[id].is_paid => tickets'[id] = tickets[id]]_vars

\* a Payment row carries the reference
Recorded(ref) == \E i \in DOMAIN payments : payments[i].payment_id = ref

\* a round trip of a settle call for the reference
SettleStep(ref) ==
    \/ update_tickets_payment_status_find(ref)
    \/ \E r \in BagToSet(proc) :
        /\ r.op = "settle"
        /\ r.ref = ref
        /\ \/ \E status \in Statuses : update_tickets_payment_status_batch(r, status)
           \/ update_tickets_payment_status_insert(r)
           \/ update_tickets_payment_status_commit(r)

\* C6: settlement is applied at most once per payment reference: once the
\* Payment row of a reference is recorded, no step of a later settle call for
\* that reference changes a ticket or adds a Payment row, whatever the user
\* has reserved in between.
C6_SettledOnce ==
    [][\A ref \in IssuedRefs :
        Recorded(ref) /\ SettleStep(ref) =>
            tickets' = tickets /\ payments' = payments]_vars

\* A second settle call found a fresh batch of the user's holds and is about
\* to insert a Payment row for a reference that already has one.
C6_Witness ==
    \E r \in At("settle", "insert") :
        /\ Recorded(r.ref)
        /\ DOMAIN r.snap # {}
        /\ \E id \in DOMAIN r.snap : tickets[id].payment_id # r.ref

\* the settle calls for a reference that have inserted its Payment row and
\* not yet committed
Settling(ref) == {r \in At("settle", "commit") : r.ref = ref}

\* C7: of the concurrent settle calls for one reference at most one gets past
\* the insert of the Payment row, and none once the row is committed; no two
\* Payment rows carry the same reference.
C7_OneSettlementPerRef ==
    /\ \A i, j \in DOMAIN payments :
        payments[i].payment_id = payments[j].payment_id => i = j
    /\ \A ref \in IssuedRefs :
        /\ Cardinality(Settling(ref)) <= 1
        /\ \A r \in Settling(ref) : CopiesIn(r, proc) = 1 /\ ~Recorded(ref)

\* Two settle calls for one reference run concurrently with the same batch:
\* one has inserted the Payment row, the other is at its insert.
C7_Witness ==
    \E r1 \in At("settle", "commit"), r2 \in At("settle", "insert") :
        r1.ref = r2.ref /\ r1.snap = r2.snap

\* C8: at most one prize is active, in every state the announcer and the
\* back-office can reach together.
C8_OneActivePrize == Cardinality(ActivePrizes) <= 1

\* C9: a user owns at most one paid ticket of a free prize, also when two of
\* the user's messages are handled concurrently.
C9_OneFreeTicketPerUser ==
    \A u \in Users, pz \in Prizes :
        is_free_prize(pz) => Cardinality(existing_tickets(u, pz)) <= 1

\* a sweep has scanned, and no reservation and no payment initiation was
\* committed between the scan of the sweep before it and its own
SecondRun == sweep.pc = "commit" /\ sweep.prev.at >= 0

\* C10 as stated: the second of two successive sweeps, at the same or a later
\* time, with no reservation or initiation in between, releases no ticket.
C10_SecondRunReleasesNothing == SecondRun => release_count = 0

\* C10 as amended: the second of two successive sweeps with no reservation or
\* initiation in between releases no ticket whose hold had expired when the
\* first one ran; run at the same time it releases no ticket at all.
C10_SecondRunReleasesOnlyNewlyExpired ==
    SecondRun =>
        /\ \A id \in DOMAIN sweep.snap :
                ~(sweep.snap[id].reserved_until < sweep.prev.at)
        /\ sweep.now = sweep.prev.at => release_count = 0

\* A sweep released a ticket and the next one scans at the same time.
C10_Witness ==
    /\ SecondRun
    /\ sweep.prev.count > 0
    /\ sweep.now = sweep.prev.at
    /\ release_count = 0

\* a hold that ended before the instant t and was not paid
Lapsed(row, t) ==
    /\ row.is_reserved
    /\ ~row.is_paid
    /\ row.reserved_until # NoTime
    /\ row.reserved_until < t

\* C11: expiry, then re-reservation.  A sweep that runs later than the end of
\* an unpaid hold puts the held numbers back into the available set, and a
\* reservation that follows it succeeds with the requester as the owner of
\* every number it asked for.
C11_ExpiredHoldsAreSoldAgain ==
    [][/\ check_and_release_expired_reservations_commit =>
            \A id \in TicketIds :
                Lapsed(tickets[id], sweep.now) =>
                    /\ id[2] \in get_available_tickets(id[1])'
                    /\ tickets'[id].user_id = NoUser
       /\ \A r \in BagToSet(proc) :
            reserve_tickets_commit(r) =>
                \A n \in r.nums :
                    /\ tickets'[<<r.prize, n>>].user_id = r.owner
                    /\ tickets'[<<r.prize, n>>].is_reserved
                    /\ tickets'[<<r.prize, n>>].reserved_until = r.until]_vars

\* The sweep has released the lapsed holds of tickets 1 and 2, and the other
\* user's reservation of both is about to commit.
C11_Witness ==
    /\ swept.count = 2
    /\ swept.at > ReserveMinutes
    /\ \E r \in At("reserve", "commit") :
            /\ r.nums = {1, 2}
            /\ DOMAIN r.snap = {<<r.prize, 1>>, <<r.prize, 2>>}
            /\ r.until > swept.at

\* the recorded winner of a prize
Winner(pz) == <<prizes[pz].winner_determined, prizes[pz].winner, prizes[pz].winning_ticket>>

\* C12: the draw is effective at most once per prize: once a winner is
\* recorded, no further invocation, sequential or concurrent, changes the
\* recorded winner or the winning number, and the view answers such an
\* invocation with "already determined".
C12_DrawnOnce ==
    [][\A pz \in Prizes :
        prizes[pz].winner_determined =>
            /\ Winner(pz)' = Winner(pz)
            /\ determine_winner_view_rejection(pz) = "already_determined"]_vars

\* Two invocations passed the checks of the view concurrently; one has drawn,
\* the other is about to run on the drawn prize, which has another paid ticket.
C12_Witness ==
    \E r \in At("draw", "draw") :
        /\ prizes[r.prize].winner_determined
        /\ \E id \in paid_tickets(r.prize) : id[2] # prizes[r.prize].winning_ticket

C14_CancelWithNothingHeldSucceeds ==
    \A u \in Users :
        HeldBy(user_by_telegram_id(telegram_id(u))) = {} =>
            cancel_all_reservations_result(telegram_id(u)) = <<TRUE, "no_reservations">>

\* the unpaid holds of a user on a prize, as ticket numbers
OwnHolds(u, pz) == {id[2] : id \in {h \in HeldBy(u) : h[1] = pz}}

\* C15: refresh semantics: a reservation request for numbers that are free or
\* held, unpaid, by the caller, at least one of them held by the caller, is
\* not rejected.
C15_OwnHoldIsRefreshed ==
    \A u \in Users, pz \in Prizes, nums \in (SUBSET Numbers) \ {{}} :
        /\ prizes[pz].is_active
        /\ nums \subseteq get_available_tickets(pz) \cup OwnHolds(user_by_telegram_id(telegram_id(u)), pz)
        /\ nums \cap OwnHolds(user_by_telegram_id(telegram_id(u)), pz) # {}
        => reserve_rejection(pz, nums) = "none"

\* C16: a canceled or failed payment changes no ticket and records no
\* Payment: the call returns non-success with the batch, which stays held as
\* it was, and a Payment row is only ever added by a call whose status is
\* succeeded.
C16_FailedPaymentChangesNothing ==
    [][/\ \A r \in BagToSet(proc), status \in Statuses \ {"succeeded"} :
            update_tickets_payment_status_batch(r, status) =>
                /\ tickets' = tickets
                /\ payments' = payments
                /\ CopiesIn(r, proc') < CopiesIn(r, proc)
                /\ update_tickets_payment_status_result(r, status) = <<FALSE, settle_batch(r)>>
       /\ payments' # payments =>
            \E r \in At("settle", "commit") :
                update_tickets_payment_status_commit(r) /\ r.status = "succeeded"]_vars

\* A settle call has found the ticket of its reference and is about to read
\* a batch that is held.
C16_Witness ==
    \E r \in At("settle", "batch") :
        /\ settle_batch(r) # {}
        /\ \E id \in settle_batch(r) : tickets[id].payment_id = r.ref

\* the tickets of the Payment row of a reference
SettledBatch(ref) ==
    UNION {payments[i].tickets : i \in {j \in DOMAIN payments : payments[j].payment_id = ref}}

\* C17: a settle call for a reference that is already settled returns the
\* settled batch: success, with the tickets the first call marked paid.
C17_ResettleReturnsSettledBatch ==
    [][\A r \in At("settle", "batch") :
        Recorded(r.ref) /\ update_tickets_payment_status_batch(r, "succeeded") =>
            update_tickets_payment_status_result(r, "succeeded") = <<TRUE, SettledBatch(r.ref)>>]_vars

Intersects(s1, e1, s2, e2) == s1 <= e2 /\ s2 <= e1

\* C19: the validation finds an overlapping prize exactly when the period of
\* the form intersects the period of another stored prize (partly, containing
\* it or contained in it), and the periods of any two stored prizes are disjoint.
C19_WindowsDisjoint ==
    /\ \A pz \in Prizes, start \in Instants, end \in Instants :
            start < end =>
                (overlapping_prizes(pz, start, end) # {} <=>
                    \E o \in Prizes \ {pz} :
                        Intersects(start, end, prizes[o].start_date, prizes[o].end_date))
    /\ \A p \in Prizes, q \in Prizes :
            p # q =>
            ~Intersects(prizes[p].start_date, prizes[p].end_date,
                        prizes[q].start_date, prizes[q].end_date)

\* A prize has been given a new period, and the form now holds a period
\* that strictly contains the period of the other prize.
C19_Witness ==
    \E pz \in Prizes, o \in Prizes :
        /\ o # pz
        /\ prizes[pz].end_date # InitPrize(pz, FALSE, NumTickets).end_date
        /\ \E start \in Instants, end \in Instants :
                /\ start < prizes[o].start_date
                /\ prizes[o].end_date < end
                /\ overlapping_prizes(pz, start, end) = {o}

\* C20: a reservation against a prize that is not active is rejected, and no
\* ticket goes from free to held for a prize that is not active at the moment
\* the hold is committed.
C20_NoHoldOnInactivePrize ==
    /\ [](\A pz \in Prizes, nums \in (SUBSET Numbers) \ {{}} :
            ~prizes[pz].is_active => reserve_rejection(pz, nums) = "inactive")
    /\ [][\A id \in TicketIds :
            ~tickets[id].is_reserved /\ tickets'[id].is_reserved => prizes[id[1]].is_active]_vars

\* C21: initiate fails without side effects.  For a user who holds no unpaid
\* ticket of the active prize the call returns before the gateway is called;
\* when the gateway call fails or answers without a payment id the call
\* returns; in both cases no ticket and no gateway payment is changed.
C21_InitiateFailsCleanly ==
    [][/\ \A u \in Users :
            /\ init_payment_read(u)
            /\ {id \in HeldBy(user_by_telegram_id(telegram_id(u))) : prizes[id[1]].is_active} = {}
            => proc' = proc /\ gateway' = gateway /\ tickets' = tickets
       /\ \A r \in BagToSet(proc) :
            init_payment_gateway_fail(r) =>
                /\ tickets' = tickets
                /\ gateway' = gateway
                /\ CopiesIn(r, proc') < CopiesIn(r, proc)]_vars

\* An initiation waits for the gateway's answer with a held batch that
\* carries no payment reference yet, while the other user holds nothing.
C21_Witness ==
    \E r \in At("init", "gateway"), u \in Users :
        /\ DOMAIN r.snap # {}
        /\ \A id \in DOMAIN r.snap : tickets[id].is_reserved /\ tickets[id].payment_id = NoRef
        /\ u # r.owner
        /\ HeldBy(u) = {}

\* the hold timers of a user that are running and were not asked to stop
LiveTimers(tg) ==
    {t \in LiveTasks : tasks[t].coro = "cancel_reservation_after_timeout" /\ tasks[t].user = tg}

\* C22: single-flight hold timer per user.  At any time a user has at most
\* one hold timer that was not cancelled, and the registry entry of the user
\* refers to it: the cleanup of a cancelled timer does not remove the entry
\* of the timer that replaced it.
C22_OneLiveTimerPerUser ==
    \A tg \in TelegramIds :
        /\ Cardinality(LiveTimers(tg)) <= 1
        /\ \A t \in LiveTimers(tg) : reservation_timers[tg] = t

\* the poll loops of a user that are running and were not asked to stop
LivePolls(tg) ==
    {t \in LiveTasks : tasks[t].coro = "check_payment_status_periodically" /\ tasks[t].user = tg}

\* C23: a superseded poll loop stops.  When the user re-enters the ticket
\* selection no poll loop of the user is left running, and when the user
\* initiates a payment only the loop of that payment is, so that no earlier
\* loop later cancels or settles what the user holds then.
C23_SupersededPollStops ==
    [][/\ \A u \in Users : buy_ticket(u) => LivePolls(telegram_id(u))' = {}
       /\ \A r \in At("init", "poll") :
            process_payment_poll(r) => LivePolls(r.user)' = {Len(tasks) + 1}]_vars

\* a ticket that is held and not paid
Held(id) == tickets[id].is_reserved /\ ~tickets[id].is_paid

\* a ticket that is free: not held, not paid, without owner
Free(id) == ~tickets[id].is_reserved /\ ~tickets[id].is_paid /\ tickets[id].user_id = NoUser

\* the invariants of a ticket: paid implies not reserved and no reserved_until;
\* no owner implies neither reserved nor paid
TicketInvariants ==
    \A id \in TicketIds :
        /\ tickets[id].is_paid => ~tickets[id].is_reserved /\ tickets[id].reserved_until = NoTime
        /\ tickets[id].user_id = NoUser => ~tickets[id].is_reserved /\ ~tickets[id].is_paid

\* after the loss of the timers every held, unpaid ticket eventually becomes free
C24_HeldTicketsAreReleased ==
    \A id \in TicketIds : (restarts > 0 /\ Held(id)) ~> Free(id)

\* the restart itself and the sweeps after it keep the ticket invariants
C24_InvariantsKept ==
    [][restarts' > 0 /\ TicketInvariants => TicketInvariants']_vars

\* C24: timers are advisory.  After the timers and poll loops are lost the
\* ticket invariants hold, and with the sweep running and no further user
\* action every held, unpaid ticket eventually becomes free.
C24_TimersAreAdvisory ==
    /\ [](restarts > 0 => TicketInvariants)
    /\ \A id \in TicketIds : (restarts > 0 /\ Held(id)) ~> Free(id)

\* C25: paid is terminal.  A ticket that is paid stays paid and keeps its
\* owner in every later state, and no operation puts a hold on it.
C25_PaidIsTerminal ==
    [][\A id \in TicketIds :
        tickets[id].is_paid =>
            /\ tickets'[id].is_paid
            /\ tickets'[id].user_id = tickets[id].user_id
            /\ tickets'[id].is_reserved => tickets[id].is_reserved]_vars

\* C26 as stated: a successful settlement settles the whole hold batch.  When
\* update_tickets_payment_status commits for a reference, the owner of the
\* ticket carrying it holds no unpaid ticket of that prize any more, every
\* ticket of the batch is paid, and the one Payment row of the reference
\* links exactly the batch with amount = ticket price x size of the batch.
C26_NothingLeftHeld ==
    [][\A r \in At("settle", "commit") :
        update_tickets_payment_status_commit(r) =>
            LET batch == DOMAIN r.snap
                rows  == {i \in DOMAIN payments' : payments'[i].payment_id = r.ref}
            IN  /\ {id \in TicketIds : /\ id[1] = r.prize
                                       /\ tickets'[id].user_id = r.owner
                                       /\ tickets'[id].is_reserved
                                       /\ ~tickets'[id].is_paid} = {}
                /\ \A id \in batch : tickets'[id].is_paid
                /\ Cardinality(rows) = 1
                /\ \A i \in rows :
                      /\ payments'[i].tickets = batch
                      /\ payments'[i].amount =
                            prizes[r.prize].ticket_price * Cardinality(batch)]_vars

\* C26: a successful settlement settles the whole hold batch as it stands
\* when the settlement reads it.  The batch read is every ticket of the prize
\* that the owner of the ticket carrying the reference holds unpaid; when the
\* settlement commits every ticket of that batch is paid and the one Payment
\* row of the reference links exactly the batch with amount = ticket price x
\* size of the batch.
C26_SettlesWholeBatch ==
    [][/\ \A r \in At("settle", "batch") :
            (/\ update_tickets_payment_status_batch(r, "succeeded")
             /\ At("settle", "insert")' # At("settle", "insert")) =>
                \E q \in At("settle", "insert")' :
                    /\ q.ref = r.ref
                    /\ DOMAIN q.snap =
                          {id \in TicketIds : /\ id[1] = r.prize
                                              /\ tickets[id].user_id = r.owner
                                              /\ tickets[id].is_reserved
                                              /\ ~tickets[id].is_paid}
       /\ \A r \in At("settle", "commit") :
            update_tickets_payment_status_commit(r) =>
                LET batch == DOMAIN r.snap
                    rows  == {i \in DOMAIN payments' : payments'[i].payment_id = r.ref}
                IN  /\ \A id \in batch : tickets'[id].is_paid
                    /\ Cardinality(rows) = 1
                    /\ \A i \in rows :
                          /\ payments'[i].tickets = batch
                          /\ payments'[i].amount =
                                prizes[r.prize].ticket_price * Cardinality(batch)]_vars

\* a settlement of a batch of two tickets has committed
C26_Witness ==
    \E i \in DOMAIN payments :
        /\ Cardinality(payments[i].tickets) = 2
        /\ \A id \in payments[i].tickets : tickets[id].is_paid

\* C27: cancel_all_reservations releases every held, unpaid ticket of the
\* user, of every prize (hold flag, expiry and owner cleared), and leaves
\* every ticket of another user, every paid and every free ticket unchanged.
C27_CancelAllReleasesOwnHolds ==
    [][\A r \in At("cancel", "commit") :
        cancel_all_reservations_commit(r) =>
            \A id \in TicketIds :
                IF id \in HeldBy(user_by_telegram_id(r.user))
                THEN /\ ~tickets'[id].is_reserved
                     /\ tickets'[id].reserved_until = NoTime
                     /\ tickets'[id].user_id = NoUser
                ELSE tickets'[id] = tickets[id]]_vars

\* C28: check_and_release_expired_reservations releases a ticket only if, at
\* the moment of the write, it is still held, unpaid and expired before the
\* sweep's now (a hold extended by init_payment or made anew by reserve_tickets
\* after the scan is not released), and the count it returns is the number of
\* tickets it released.
C28_ReleasesOnlyStillExpired ==
    [][check_and_release_expired_reservations_commit =>
         /\ \A id \in TicketIds :
              tickets'[id] # tickets[id] => IsExpired(tickets[id], sweep.now)
         /\ release_count =
              Cardinality({id \in TicketIds : /\ tickets[id].is_reserved
                                              /\ ~tickets[id].is_paid
                                              /\ ~tickets'[id].is_reserved})]_vars

\* C29: the activation sweep activates a prize only if the prize is not
\* active, has no winner drawn and start_date <= now < end_date, and only
\* when no prize is active; it activates at most one prize per run, the
\* earliest pending one by start date; a prize whose end_date <= now is never
\* activated.
C29_ActivatesOnlyDuePrize ==
    [][activate_pending_prize =>
         /\ ~prizes[ann.prize].is_active
         /\ ~prizes[ann.prize].winner_determined
         /\ prizes[ann.prize].start_date <= now
         /\ now < prizes[ann.prize].end_date
         /\ ActivePrizes = {}
         /\ \A pz \in PendingPrizes :
                prizes[ann.prize].start_date <= prizes[pz].start_date
         /\ \A pz \in Prizes \ {ann.prize} :
                prizes'[pz].is_active = prizes[pz].is_active]_vars

\* what a retirement run at now leaves of the prizes: an active prize with
\* end_date <= now is inactive, every other prize is as it was
Retired(t) ==
    [pz \in Prizes |->
        IF prizes[pz].is_active /\ prizes[pz].end_date <= t
        THEN [prizes[pz] EXCEPT !.is_active = FALSE]
        ELSE prizes[pz]]

\* C30: a retirement run sets is_active = False on every active prize with
\* end_date <= now (end_date = now included), leaves the active prizes with
\* end_date > now active and changes no ticket; the prize-expiry job
\* (check_and_finish_expired_prizes) and the announcer's
\* deactivate_all_active_prizes retire the same prizes for the same now.
C30_RetireExpired ==
    [][/\ deactivate_all_active_prizes_commit =>
            prizes' = Retired(now) /\ tickets' = tickets
       /\ check_and_finish_expired_prizes_commit =>
            prizes' = Retired(now) /\ tickets' = tickets]_vars

\* C31: a successful init_payment sets the same new reserved_until, later
\* than now, on every held, unpaid ticket of the user for the active prize,
\* stores the gateway's payment id on exactly one ticket of that batch,
\* changes no ticket outside the batch, and asks the gateway for
\* batch size x ticket price.
C31_InitiateExtendsBatch ==
    [][\A r \in At("init", "gateway") :
        init_payment_gateway_ok(r) =>
            LET batch == get_user_reserved_tickets(r.owner)
                ref   == <<"pay", Len(gateway')>>
            IN  /\ \A id \in batch :
                      /\ tickets'[id].reserved_until = now + PayMinutes
                      /\ tickets'[id].reserved_until > now
                /\ Cardinality({id \in batch : tickets'[id].payment_id = ref}) = 1
                /\ \A id \in TicketIds \ batch : tickets'[id] = tickets[id]
                /\ gateway'[Len(gateway')].amount =
                      Cardinality(batch) * prizes[r.prize].ticket_price]_vars

\* the poll loops
PollLoops == {t \in TaskIds : tasks[t].coro = "check_payment_status_periodically"}

\* the calls of cancel_all_reservations a task is waiting for
CancelAllOf(t) == {r \in Awaited(t) : r.op = "cancel"}

\* a poll loop makes at most MaxPolls polls
C32_PollsBounded == \A t \in PollLoops : tasks[t].polls <= MaxPolls

\* A poll loop ends in one of three ways: after a settlement that recorded the
\* payment, after a canceled or failed report, or after cancel_all_reservations
\* when its polls are used up; it calls cancel_all_reservations only then; and
\* when it ends its payment id is no longer in payment_check_timers.
C32_ExitPaths ==
    [][\A t \in PollLoops :
        LET ends     == tasks[t].pc # "done" /\ tasks'[t].pc = "done"
            settled  == /\ tasks[t].pc = "settle"
                        /\ tasks[t].success
                        /\ Recorded(tasks[t].payment_id)
            reported == /\ tasks[t].pc = "sleep"
                        /\ check_payment_status(tasks[t].payment_id) \in {"canceled", "failed"}
            timedout == tasks[t].pc = "cancel_all"
        IN  /\ ends => /\ settled \/ reported \/ timedout
                       /\ ~(settled /\ reported) /\ ~(settled /\ timedout)
                       /\ ~(reported /\ timedout)
                       /\ tasks[t].payment_id \notin DOMAIN payment_check_timers'
            /\ (CancelAllOf(t)' # {} /\ CancelAllOf(t) = {})
                    <=> (tasks[t].pc = "sleep" /\ tasks'[t].pc = "cancel_all")
            /\ tasks'[t].pc = "cancel_all" => tasks[t].polls = MaxPolls]_vars

\* every poll loop ends
C32_LoopEnds ==
    \A t \in 1..MaxTasks : (t \in PollLoops) ~> (t \in PollLoops /\ tasks[t].pc = "done")

\* C32: every payment-poll loop terminates after at most MaxPolls (in the
\* source: 60) status polls, in exactly one of three ways: a successful
\* settlement, a canceled or failed report, or timeout; it calls
\* cancel_all_reservations if and only if it ends by timeout, and on every
\* exit path the entry of its payment id in payment_check_timers is removed.
C32_PollLoopTerminates ==
    /\ []C32_PollsBounded
    /\ C32_ExitPaths
    /\ C32_LoopEnds

\* a loop has ended by timeout: its polls are used up, the payment is still
\* pending, the loop is done and its entry is gone
C32_Witness ==
    \E t \in PollLoops :
        /\ tasks[t].pc = "done"
        /\ tasks[t].polls = MaxPolls
        /\ check_payment_status(tasks[t].payment_id) = "pending"
        /\ tasks[t].payment_id \notin DOMAIN payment_check_timers

\* the tickets of a payment id: those its Payment row links when it is
\* settled, otherwise the held, unpaid tickets of the user and the prize of
\* the ticket that carries it
BatchOf(ref) ==
    IF Recorded(ref)
    THEN LET i == CHOOSE j \in DOMAIN payments : payments[j].payment_id = ref
         IN  payments[i].tickets
    ELSE LET id == CHOOSE x \in TicketsWithRef(ref) : TRUE
         IN  {x \in HeldBy(tickets[id].user_id) : x[1] = id[1]}

\* C33: get_payment_by_id reads only, and the ticket numbers and the amount
\* it returns are those of the batch of the payment id: for a payment in
\* flight the whole held batch, for a settled payment the tickets that
\* payment settled and no other paid ticket of the user.
C33_DescribeProjectsBatch ==
    \A ref \in IssuedRefs :
        get_payment_by_id(ref) # None =>
            /\ get_payment_by_id(ref).tickets = {x[2] : x \in BatchOf(ref)}
            /\ get_payment_by_id(ref).amount =
                    Cardinality(BatchOf(ref)) * prizes[get_payment_by_id(ref).prize_id].ticket_price

\* ---------------------------------------------------------------- C34
\* C34: for every prize and every state of its tickets the available set is
\* {1..ticket_count} minus the numbers whose ticket is reserved or paid, a
\* number without a ticket row counting as available, and the repository
\* query, the announcer's computation and the Prize model method all return
\* that set.
Unavailable(pz) ==
    {n \in Numbers : tickets[<<pz, n>>].is_reserved \/ tickets[<<pz, n>>].is_paid}

C34_AvailableSetsAgree ==
    \A pz \in Prizes :
        /\ get_available_tickets(pz) = (1..prizes[pz].ticket_count) \ Unavailable(pz)
        /\ get_available_ticket_numbers(pz) = get_available_tickets(pz)
        /\ Prize_get_available_tickets(pz) = get_available_tickets(pz)

\* a number without a row is on offer next to a held and a paid ticket
C34_Witness ==
    /\ prizes[1].ticket_count = NumTickets + 1
    /\ \E a \in Numbers, b \in Numbers :
            /\ tickets[<<1, a>>].is_reserved /\ ~tickets[<<1, a>>].is_paid
            /\ tickets[<<1, b>>].is_paid
    /\ get_available_tickets(1) = {NumTickets + 1}

\* ---------------------------------------------------------------- C35
\* C35: in every reachable state a ticket is reserved if and only if its
\* reserved_until is set, so every held ticket carries an expiry the sweep's
\* reserved_until < now test can match.
C35_ReservedIffExpiry ==
    \A id \in TicketIds :
        tickets[id].is_reserved <=> tickets[id].reserved_until # NoTime

\* ---------------------------------------------------------------- C36
\* the user init_payment created the reference for
InitiatorOf(ref) == user_by_telegram_id(gateway[ref[2]].user)

\* C36: a payment only pays tickets of the user who initiated it.  Every
\* ticket a settlement of a reference marks paid is owned by the user
\* init_payment created the reference for, also after the ticket carrying the
\* reference was released and reserved by another user.
C36_PaysOnlyInitiator ==
    [][\A r \in At("settle", "commit") :
        update_tickets_payment_status_commit(r) =>
            \A id \in TicketIds :
                ~tickets[id].is_paid /\ tickets'[id].is_paid =>
                    tickets'[id].user_id = InitiatorOf(r.ref)]_vars

\* ---------------------------------------------------------------- C37
\* the tickets init_payment asked the gateway to charge for the reference
ChargedTickets(ref) == gateway[ref[2]].tickets

\* the poll loop has seen the gateway report succeeded and has called
\* update_tickets_payment_status
SawSucceeded(t) == t \in PollLoops /\ tasks[t].pc = "settle"

\* C37: a confirmed payment is honoured.  When a poll of a running poll loop
\* finds the gateway reporting succeeded for its reference, every ticket of
\* the user's batch at the initiation of the reference is eventually paid and
\* owned by that user; the sweep does not release those holds while the loop
\* can still see succeeded.
C37_ConfirmedIsHonoured ==
    \A t \in 1..MaxTasks :
        SawSucceeded(t) ~>
            /\ t \in PollLoops
            /\ \A id \in ChargedTickets(tasks[t].payment_id) :
                    /\ tickets[id].is_paid
                    /\ tickets[id].user_id = InitiatorOf(tasks[t].payment_id)

\* ---------------------------------------------------------------- C38
\* the tickets a step marks paid
MarkedPaid == {id \in TicketIds : ~tickets[id].is_paid /\ tickets'[id].is_paid}

\* C38: the tickets paid through a payment are the tickets that were charged.
\* When update_tickets_payment_status commits for a reference, the tickets it
\* marks paid are the tickets, and the amount of the Payment row it writes is
\* the amount, that init_payment requested from the gateway for the
\* reference; a ticket the user reserved after the initiation is not paid.
C38_PaysWhatWasCharged ==
    [][\A r \in At("settle", "commit") :
        update_tickets_payment_status_commit(r) =>
            /\ MarkedPaid = ChargedTickets(r.ref)
            /\ payments'[Len(payments')].payment_id = r.ref
            /\ payments'[Len(payments')].tickets = ChargedTickets(r.ref)
            /\ payments'[Len(payments')].amount = gateway[r.ref[2]].amount]_vars

\* ---------------------------------------------------------------- C39
\* C39: the paid tickets of a prize are frozen once its winner is drawn.
\* After a winner is recorded for a prize, neither a settlement nor a claim of
\* a free ticket marks a further ticket of the prize paid.
C39_PaidSetFrozenAfterDraw ==
    [][\A pz \in Prizes :
        prizes[pz].winner_determined =>
            \A id \in tickets_of_prize(pz) :
                tickets'[id].is_paid => tickets[id].is_paid]_vars
=============================================================================
